---- MODULE Spec2Model ----
(***************************************************************************)
(* Model of the Monster Hunter World build API:                            *)
(*   - the catalog tables of models.py,                                    *)
(*   - build create / update of BuildCreateUpdateSerializer,               *)
(*   - the build stats engine BuildStatsView of api_views.py.              *)
(***************************************************************************)
EXTENDS Integers, Sequences, FiniteSets, Bags, TLC

VARIABLES
    SetBonusRank,   \* rows of the SetBonusRank table
    Weapon,         \* rows of the Weapon table, keyed by primary key
    build,          \* the stored Build with its armor pieces and decorations
    response,       \* the response to the last request
    previous,       \* the response to the request before the last one
    patch_in_flight,    \* a PATCH that runs one statement at a time
    stats_in_flight,    \* a stats request that runs one query at a time
    Monster,            \* rows of the Monster table; the primary key is the position
    MonsterWeakness,    \* rows of the MonsterWeakness table, as a bag
    MonsterResistance   \* rows of the MonsterResistance table, as a bag

vars == <<SetBonusRank, Weapon, build, response, previous, patch_in_flight, stats_in_flight,
          Monster, MonsterWeakness, MonsterResistance>>

----------------------------------------------------------------------------
(* Bounds of the model *)

MaxRanks == 2       \* at most this many SetBonusRank rows in a catalog

----------------------------------------------------------------------------
(* Values *)

None == -999            \* Python None / SQL NULL in an integer column
NoneStr == "<None>"     \* Python None / SQL NULL in a text column

Max(a, b) == IF a >= b THEN a ELSE b
Min(a, b) == IF a <= b THEN a ELSE b

\* Every string of the model, in the order Python compares str values.
StrOrder ==
    << "", "Attack", "Broken", "Guard", "Guts", "Leather", "Mastery", "Rath",
       "Rath ", "Rath B", "Unknown Set", "attack", "broken", "fire", "guard",
       "guts", "leather", "mastery", "rath", "rath b", "unknown set" >>

StrRank(s) == CHOOSE i \in 1..Len(StrOrder) : StrOrder[i] = s

\* str.lower()
Lower(s) ==
    CASE s = "Attack"      -> "attack"
      [] s = "Broken"      -> "broken"
      [] s = "Guard"       -> "guard"
      [] s = "Guts"        -> "guts"
      [] s = "Leather"     -> "leather"
      [] s = "Mastery"     -> "mastery"
      [] s = "Rath"        -> "rath"
      [] s = "Rath "       -> "rath "
      [] s = "Rath B"      -> "rath b"
      [] s = "Unknown Set" -> "unknown set"
      [] s = "Fire"        -> "fire"
      [] s = "Water"       -> "water"
      [] s = "Elder Dragon" -> "elder dragon"
      [] OTHER             -> s

\* str.strip()
Strip(s) ==
    CASE s = "Rath "  -> "Rath"
      [] s = " Fire " -> "Fire"
      [] OTHER        -> s

\* str.title()
Title(s) ==
    CASE s = "fire"  -> "Fire"
      [] s = "water" -> "Water"
      [] OTHER       -> s

\* django.utils.text.slugify
Slugify(s) ==
    CASE s = "covered in mud"  -> "covered-in-mud"
      [] s = "Covered in mud!" -> "covered-in-mud"
      [] OTHER                 -> s

----------------------------------------------------------------------------
(* Sequences *)

\* The elements of S as a sequence, by ascending rank or, when the store
\* returns the rows of an unordered query the other way round, descending.
StoreOrders == {"asc", "desc"}

Ordered(S, rank(_), order) ==
    LET before(x, y) == IF order = "asc" THEN rank(x) < rank(y) ELSE rank(x) > rank(y)
    IN [i \in 1..Cardinality(S) |->
          CHOOSE x \in S : Cardinality({y \in S : before(y, x)}) = i - 1]

\* sorted() / list.sort(): a stable sort by the strict order less.
StableSort(seq, less(_, _)) ==
    LET n == Len(seq)
        pos(k) == 1 + Cardinality({j \in 1..n :
                        \/ less(seq[j], seq[k])
                        \/ (~less(seq[k], seq[j]) /\ j < k)})
    IN [i \in 1..n |-> seq[CHOOSE k \in 1..n : pos(k) = i]]

RECURSIVE Concat(_)
Concat(seqs) == IF seqs = <<>> THEN <<>> ELSE Head(seqs) \o Concat(Tail(seqs))

RECURSIVE SumSeq(_)
SumSeq(seq) == IF seq = <<>> THEN 0 ELSE Head(seq) + SumSeq(Tail(seq))

RECURSIVE SumOver(_, _)
SumOver(S, f) ==
    IF S = {} THEN 0
    ELSE LET x == CHOOSE y \in S : TRUE IN f[x] + SumOver(S \ {x}, f)

Range(seq) == {seq[i] : i \in 1..Len(seq)}

----------------------------------------------------------------------------
(* Catalog tables (models.py), keyed by primary key *)

Slots == <<"head", "chest", "gloves", "waist", "legs">>
VALID_ARMOR_SLOTS == Range(Slots)
VALID_DECO_SLOTS == VALID_ARMOR_SLOTS \cup {"weapon"}
SlotIndex(s) == CHOOSE i \in 1..Len(Slots) : Slots[i] = s

Skill ==
    [id \in 1..4 |->
        CASE id = 1 -> [external_id |-> 11, name |-> "Attack", max_level |-> 3]
          [] id = 2 -> [external_id |-> 12, name |-> "attack", max_level |-> 0]
          [] id = 3 -> [external_id |-> 0,  name |-> "Broken", max_level |-> 1]
          [] id = 4 -> [external_id |-> 13, name |-> "Guard",  max_level |-> 2]]

ArmorRow(ext, type, def, dmax, fire, water, set_id, set_name, bonus_id) ==
    [external_id |-> ext, armor_type |-> type,
     defense_base |-> def, defense_max |-> dmax, defense_augmented |-> dmax + 1,
     res_fire |-> fire, res_water |-> water, res_thunder |-> 0,
     res_ice |-> 0, res_dragon |-> -water,
     armor_set_external_id |-> set_id, armor_set_name |-> set_name,
     armor_set_bonus_external_id |-> bonus_id]

Armor ==
    [id \in 1..7 |->
        CASE id = 1 -> ArmorRow(101, "head",   2, 5,  2, 0, 10,   "Rath",    71)
          [] id = 2 -> ArmorRow(102, "chest",  2, 5,  2, 0, 10,   "Rath ",   71)
          [] id = 3 -> ArmorRow(103, "gloves", 3, 6,  0, 1, 11,   "Rath B",  71)
          [] id = 4 -> ArmorRow(104, "waist",  1, 4, -2, 0, 11,   "Rath B",  71)
          [] id = 5 -> ArmorRow(105, "legs",   1, 4,  0, 0, 20,   "Leather", None)
          [] id = 6 -> ArmorRow(106, "head",   4, 7, -3, 0, None, NoneStr,   None)
          [] id = 7 -> ArmorRow(107, "chest",  1, 4,  0, 0, None, "",        72)]

ArmorSkill ==
    { [id |-> 1, armor_id |-> 1, skill_id |-> 1, level |-> 2],
      [id |-> 2, armor_id |-> 2, skill_id |-> 2, level |-> 1],
      [id |-> 3, armor_id |-> 3, skill_id |-> 1, level |-> 1],
      [id |-> 4, armor_id |-> 4, skill_id |-> 4, level |-> 1],
      [id |-> 5, armor_id |-> 6, skill_id |-> 3, level |-> 1],
      [id |-> 6, armor_id |-> 7, skill_id |-> 4, level |-> 2] }

Charm ==
    [id \in 1..2 |->
        CASE id = 1 -> [external_id |-> 201, name |-> "Guard"]
          [] id = 2 -> [external_id |-> 202, name |-> "Attack"]]

CharmSkill ==
    { [id |-> 1, charm_id |-> 1, skill_id |-> 1, level |-> 1],
      [id |-> 2, charm_id |-> 1, skill_id |-> 4, level |-> 3],
      [id |-> 3, charm_id |-> 2, skill_id |-> 1, level |-> 1],
      [id |-> 4, charm_id |-> 2, skill_id |-> 2, level |-> 1],
      [id |-> 5, charm_id |-> 2, skill_id |-> 3, level |-> 1] }

Decoration ==
    [id \in 1..2 |->
        CASE id = 1 -> [external_id |-> 301, name |-> "Attack"]
          [] id = 2 -> [external_id |-> 302, name |-> "attack"]]

DecorationSkill ==
    { [id |-> 1, decoration_id |-> 1, skill_id |-> 1, level |-> 2],
      [id |-> 2, decoration_id |-> 2, skill_id |-> 2, level |-> 1] }

SetBonus ==
    [id \in 1..2 |->
        CASE id = 1 -> [external_id |-> 71, name |-> "Mastery"]
          [] id = 2 -> [external_id |-> 72, name |-> "Guts"]]

\* The SetBonusRank rows a catalog is drawn from: pieces, level and the
\* external id of the skill are positive, as import_set_bonuses keeps them.
RankRow(pk, sb, pieces, skill, level) ==
    [id |-> pk, set_bonus_id |-> sb, pieces |-> pieces, skill_id |-> skill, level |-> level]

RankUniverse ==
    { RankRow(1, 1, 2, 1, 1),
      RankRow(2, 1, 4, 1, 2),
      RankRow(3, 1, 3, 4, 1),
      RankRow(4, 2, 1, 4, 2),
      RankRow(5, 2, 2, 2, 1),
      RankRow(6, 1, 2, 2, 1) }

RankCatalogs == {R \in SUBSET RankUniverse : Cardinality(R) <= MaxRanks}

----------------------------------------------------------------------------
(* Build stats engine: set grouping (api_views.py, BuildStatsView) *)

NoBuild == [id |-> 0, weapon_id |-> None, charm_id |-> None,
            armor_pieces |-> {}, decorations |-> {}]

\* _SetKey: the grouping key is the triple of its three fields.
_SetKey(bonus_id, set_id, set_name) ==
    [bonus_id |-> bonus_id, set_id |-> set_id, set_name |-> set_name]

\* The value of _make_set_key for a piece that belongs to no set.
NoKey == _SetKey(None, None, "")

_make_set_key(armor) ==
    LET bonus_id == armor.armor_set_bonus_external_id
        set_id   == armor.armor_set_external_id
        set_name == Strip(IF armor.armor_set_name = NoneStr THEN "" ELSE armor.armor_set_name)
    IN IF bonus_id = None /\ set_id = None /\ set_name = ""
       THEN NoKey
       ELSE _SetKey(bonus_id, set_id, IF set_name = "" THEN "Unknown Set" ELSE set_name)

\* build.armor_pieces.select_related("armor").all(): an unordered query.
ArmorPieceRows(b, order) ==
    LET rank(p) == SlotIndex(p.slot) IN Ordered(b.armor_pieces, rank, order)

_get_equipped_armors(b, order) ==
    LET rows == ArmorPieceRows(b, order)
    IN [i \in 1..Len(rows) |-> rows[i].armor_id]

\* counts and meta as one insertion-ordered dict: the entries are in the
\* order in which their keys were first seen.
_count_equipped_set_pieces(b, order) ==
    LET rows  == ArmorPieceRows(b, order)
        n     == Len(rows)
        key   == [i \in 1..n |-> _make_set_key(Armor[rows[i].armor_id])]
        first == {i \in 1..n : key[i] # NoKey /\ \A j \in 1..(i - 1) : key[j] # key[i]}
        fseq  == Ordered(first, LAMBDA i : i, "asc")
    IN [m \in 1..Len(fseq) |->
          [key   |-> key[fseq[m]],
           count |-> Cardinality({i \in 1..n : key[i] = key[fseq[m]]}),
           name  |-> key[fseq[m]].set_name]]

\* SetBonusRank.objects.filter(set_bonus__external_id__in=bonus_ids)
\*   .order_by("set_bonus__external_id", "pieces", "skill__name", "level")
RankLess(r1, r2) ==
    LET k(r) == <<SetBonus[r.set_bonus_id].external_id, r.pieces,
                  StrRank(Skill[r.skill_id].name), r.level>>
        a == k(r1)
        c == k(r2)
    IN \/ a[1] < c[1]
       \/ a[1] = c[1] /\ a[2] < c[2]
       \/ a[1] = c[1] /\ a[2] = c[2] /\ a[3] < c[3]
       \/ a[1] = c[1] /\ a[2] = c[2] /\ a[3] = c[3] /\ a[4] < c[4]

RanksQuery(bonus_ids, order) ==
    LET rows == {r \in SetBonusRank : SetBonus[r.set_bonus_id].external_id \in bonus_ids}
    IN StableSort(Ordered(rows, LAMBDA r : r.id, order), RankLess)

----------------------------------------------------------------------------
(* Set bonus rows (thresholds) *)

SetBonusRowRec(name, pieces, active) == [name |-> name, pieces |-> pieces, active |-> active]

CountsLess(e1, e2) ==
    \/ e1.count > e2.count
    \/ e1.count = e2.count
       /\ StrRank(Lower(e1.key.set_name)) < StrRank(Lower(e2.key.set_name))

SetBonusRowLess(x, y) ==
    \/ StrRank(Lower(x.name)) < StrRank(Lower(y.name))
    \/ Lower(x.name) = Lower(y.name) /\ x.pieces < y.pieces

\* The rows one counted group emits.
SetBonusRowsOfGroup(e, ranks) ==
    LET thresholds == {r.pieces : r \in {x \in Range(ranks) : x.pieces > 0}}
        tseq       == Ordered(thresholds, LAMBDA t : t, "asc")
        set_bonus_name == SetBonus[ranks[1].set_bonus_id].name
    IN IF e.key.bonus_id = None
       THEN << SetBonusRowRec(e.name, e.count, FALSE) >>
       ELSE IF ranks = <<>>
       THEN << SetBonusRowRec(e.name, e.count, FALSE) >>
       ELSE IF thresholds = {}
       THEN << SetBonusRowRec(set_bonus_name, e.count, FALSE) >>
       ELSE [i \in 1..Len(tseq) |->
               SetBonusRowRec(set_bonus_name, tseq[i], e.count >= tseq[i])]

\* _compute_set_bonuses without the final sort: the rows stay in the order of
\* the first pass over the groups.
_compute_set_bonuses_in_group_order(b, order) ==
    LET counts    == _count_equipped_set_pieces(b, order)
        bonus_ids == {counts[i].key.bonus_id : i \in 1..Len(counts)} \ {None}
        ranks_by_bonus(bonus_id) ==
            LET all == RanksQuery(bonus_ids, order)
            IN SelectSeq(all, LAMBDA r : SetBonus[r.set_bonus_id].external_id = bonus_id)
        sorted    == StableSort(counts, CountsLess)
    IN Concat([i \in 1..Len(sorted) |->
                 SetBonusRowsOfGroup(sorted[i],
                     IF sorted[i].key.bonus_id = None THEN <<>>
                     ELSE ranks_by_bonus(sorted[i].key.bonus_id))])

_compute_set_bonuses(b, order) ==
    LET counts    == _count_equipped_set_pieces(b, order)
        bonus_ids == {counts[i].key.bonus_id : i \in 1..Len(counts)} \ {None}
        ranks_by_bonus(bonus_id) ==
            LET all == RanksQuery(bonus_ids, order)
            IN SelectSeq(all, LAMBDA r : SetBonus[r.set_bonus_id].external_id = bonus_id)
        sorted    == StableSort(counts, CountsLess)
        out       == Concat([i \in 1..Len(sorted) |->
                        SetBonusRowsOfGroup(sorted[i],
                            IF sorted[i].key.bonus_id = None THEN <<>>
                            ELSE ranks_by_bonus(sorted[i].key.bonus_id))])
    IN StableSort(out, SetBonusRowLess)

----------------------------------------------------------------------------
(* Set bonus unlocked skills (raw contributions) *)

\* BestOfRanks with the levels of the satisfied ranks of a skill added up.
RECURSIVE BestOfRanks_summed(_, _, _)
BestOfRanks_summed(ranks, bonus_counts, best) ==
    IF ranks = <<>> THEN best
    ELSE
      LET r        == Head(ranks)
          equipped == bonus_counts[SetBonus[r.set_bonus_id].external_id]
          skill_external_id == Skill[r.skill_id].external_id
          level    == r.level
          at       == {i \in 1..Len(best) : best[i].skill_external_id = skill_external_id}
          next ==
            IF equipped < r.pieces THEN best
            ELSE IF skill_external_id <= 0 \/ level <= 0 THEN best
            ELSE IF at = {}
                 THEN Append(best, [skill_external_id |-> skill_external_id, level |-> level])
            ELSE LET i == CHOOSE j \in at : TRUE
                 IN [best EXCEPT ![i].level = @ + level]
      IN BestOfRanks_summed(Tail(ranks), bonus_counts, next)

\* best as an insertion-ordered dict {skill_external_id: level}.
RECURSIVE BestOfRanks(_, _, _)
BestOfRanks(ranks, bonus_counts, best) ==
    IF ranks = <<>> THEN best
    ELSE
      LET r        == Head(ranks)
          equipped == bonus_counts[SetBonus[r.set_bonus_id].external_id]
          skill_external_id == Skill[r.skill_id].external_id
          level    == r.level
          at       == {i \in 1..Len(best) : best[i].skill_external_id = skill_external_id}
          next ==
            IF equipped < r.pieces THEN best
            ELSE IF skill_external_id <= 0 \/ level <= 0 THEN best
            ELSE IF at = {}
                 THEN Append(best, [skill_external_id |-> skill_external_id, level |-> level])
            ELSE LET i == CHOOSE j \in at : TRUE
                 IN IF level > best[i].level
                    THEN [best EXCEPT ![i].level = level]
                    ELSE best
      IN BestOfRanks(Tail(ranks), bonus_counts, next)

\* _compute_set_bonus_skill_contribs with the pieces of a bonus id counted per
\* set key and not added up over the keys.
_compute_set_bonus_skill_contribs_per_key(b, order) ==
    LET counts    == _count_equipped_set_pieces(b, order)
        bonus_ids == {counts[i].key.bonus_id : i \in 1..Len(counts)} \ {None}
        bonus_counts ==
            [bid \in bonus_ids |->
                LET of_bonus == {counts[i].count : i \in
                                    {j \in 1..Len(counts) : counts[j].key.bonus_id = bid}}
                IN CHOOSE c \in of_bonus : \A d \in of_bonus : d <= c]
    IN IF bonus_ids = {} THEN <<>>
       ELSE BestOfRanks(RanksQuery(bonus_ids, order), bonus_counts, <<>>)

_compute_set_bonus_skill_contribs(b, order) ==
    LET counts    == _count_equipped_set_pieces(b, order)
        bonus_ids == {counts[i].key.bonus_id : i \in 1..Len(counts)} \ {None}
        bonus_counts ==
            [bid \in bonus_ids |->
                SumSeq([i \in 1..Len(counts) |->
                    IF counts[i].key.bonus_id = bid THEN counts[i].count ELSE 0])]
    IN IF bonus_ids = {} THEN <<>>
       ELSE BestOfRanks(RanksQuery(bonus_ids, order), bonus_counts, <<>>)

----------------------------------------------------------------------------
(* Skill aggregation (armor + charm + decoration + set_bonus) *)

SourceKeys == {"armor", "charm", "decoration", "set_bonus"}

NoSources == [k \in {} |-> 0]

\* int(x or 1)
IntOr1(x) == IF x = 0 \/ x = None THEN 1 ELSE x

\* One contribution handed to _merge_skill.
Contribution(skill_id, add_level, source_key) ==
    [skill_id |-> skill_id, add_level |-> add_level, source_key |-> source_key]

\* _merge_skill with the level capped as it is merged, and the source credited
\* with the capped amount only.
_merge_skill_capped(acc, skill, add_level, source_key) ==
    LET skill_external_id == Skill[skill].external_id
        max_level == IntOr1(Skill[skill].max_level)
        at   == {i \in 1..Len(acc) : acc[i].skill_id = skill_external_id}
        acc1 == IF at # {} THEN acc
                ELSE Append(acc, [skill_id  |-> skill_external_id,
                                  name      |-> Skill[skill].name,
                                  level     |-> 0,
                                  max_level |-> max_level,
                                  sources   |-> NoSources])
        i    == CHOOSE j \in 1..Len(acc1) : acc1[j].skill_id = skill_external_id
        row  == acc1[i]
        add  == Min(add_level, Max(0, max_level - row.level))
        sources == [k \in DOMAIN row.sources \cup {source_key} |->
                      (IF k \in DOMAIN row.sources THEN row.sources[k] ELSE 0)
                      + (IF k = source_key THEN add ELSE 0)]
    IN IF add_level <= 0 THEN acc
       ELSE IF skill_external_id <= 0 THEN acc
       ELSE [acc1 EXCEPT ![i] =
                [skill_id  |-> row.skill_id,
                 name      |-> Skill[skill].name,
                 level     |-> row.level + add,
                 max_level |-> Max(IntOr1(row.max_level), max_level),
                 sources   |-> sources]]

\* _merge_skill keeping, per source, the latest contribution and not the sum.
_merge_skill_latest(acc, skill, add_level, source_key) ==
    LET skill_external_id == Skill[skill].external_id
        max_level == IntOr1(Skill[skill].max_level)
        at   == {i \in 1..Len(acc) : acc[i].skill_id = skill_external_id}
        acc1 == IF at # {} THEN acc
                ELSE Append(acc, [skill_id  |-> skill_external_id,
                                  name      |-> Skill[skill].name,
                                  level     |-> 0,
                                  max_level |-> max_level,
                                  sources   |-> NoSources])
        i    == CHOOSE j \in 1..Len(acc1) : acc1[j].skill_id = skill_external_id
        row  == acc1[i]
        sources == [k \in DOMAIN row.sources \cup {source_key} |->
                      IF k = source_key THEN add_level ELSE row.sources[k]]
    IN IF add_level <= 0 THEN acc
       ELSE IF skill_external_id <= 0 THEN acc
       ELSE [acc1 EXCEPT ![i] =
                [skill_id  |-> row.skill_id,
                 name      |-> Skill[skill].name,
                 level     |-> SumOver(DOMAIN sources, sources),
                 max_level |-> Max(IntOr1(row.max_level), max_level),
                 sources   |-> sources]]

\* _merge_skill without the early returns on a non-positive level or skill id.
_merge_skill_unguarded(acc, skill, add_level, source_key) ==
    LET skill_external_id == Skill[skill].external_id
        max_level == IntOr1(Skill[skill].max_level)
        at   == {i \in 1..Len(acc) : acc[i].skill_id = skill_external_id}
        acc1 == IF at # {} THEN acc
                ELSE Append(acc, [skill_id  |-> skill_external_id,
                                  name      |-> Skill[skill].name,
                                  level     |-> 0,
                                  max_level |-> max_level,
                                  sources   |-> NoSources])
        i    == CHOOSE j \in 1..Len(acc1) : acc1[j].skill_id = skill_external_id
        row  == acc1[i]
        sources == [k \in DOMAIN row.sources \cup {source_key} |->
                      (IF k \in DOMAIN row.sources THEN row.sources[k] ELSE 0)
                      + (IF k = source_key THEN add_level ELSE 0)]
    IN [acc1 EXCEPT ![i] =
                [skill_id  |-> row.skill_id,
                 name      |-> Skill[skill].name,
                 level     |-> row.level + add_level,
                 max_level |-> Max(IntOr1(row.max_level), max_level),
                 sources   |-> sources]]

\* acc is an insertion-ordered dict: a sequence of rows with distinct skill_id.
_merge_skill(acc, skill, add_level, source_key) ==
    LET skill_external_id == Skill[skill].external_id
        max_level == IntOr1(Skill[skill].max_level)
        at   == {i \in 1..Len(acc) : acc[i].skill_id = skill_external_id}
        acc1 == IF at # {} THEN acc
                ELSE Append(acc, [skill_id  |-> skill_external_id,
                                  name      |-> Skill[skill].name,
                                  level     |-> 0,
                                  max_level |-> max_level,
                                  sources   |-> NoSources])
        i    == CHOOSE j \in 1..Len(acc1) : acc1[j].skill_id = skill_external_id
        row  == acc1[i]
        sources == [k \in DOMAIN row.sources \cup {source_key} |->
                      (IF k \in DOMAIN row.sources THEN row.sources[k] ELSE 0)
                      + (IF k = source_key THEN add_level ELSE 0)]
    IN IF add_level <= 0 THEN acc
       ELSE IF skill_external_id <= 0 THEN acc
       ELSE [acc1 EXCEPT ![i] =
                [skill_id  |-> row.skill_id,
                 name      |-> Skill[skill].name,
                 level     |-> row.level + add_level,
                 max_level |-> Max(IntOr1(row.max_level), max_level),
                 sources   |-> sources]]

SkillRowLess(x, y) ==
    \/ x.level > y.level
    \/ x.level = y.level /\ StrRank(Lower(x.name)) < StrRank(Lower(y.name))

\* _finalize_skills without the clamp.
_finalize_skills_unclamped(acc) == StableSort(acc, SkillRowLess)

\* _finalize_skills sorting on the level before the clamp.
_finalize_skills_sorted_first(acc) ==
    LET sorted == StableSort(acc, SkillRowLess)
    IN [i \in 1..Len(sorted) |->
          LET max_level == IntOr1(sorted[i].max_level)
          IN IF sorted[i].level > max_level
             THEN [sorted[i] EXCEPT !.level = max_level]
             ELSE sorted[i]]

_finalize_skills(acc) ==
    LET out == [i \in 1..Len(acc) |->
                  LET max_level == IntOr1(acc[i].max_level)
                  IN IF acc[i].level > max_level
                     THEN [acc[i] EXCEPT !.level = max_level]
                     ELSE acc[i]]
    IN StableSort(out, SkillRowLess)

RECURSIVE MergeAll(_, _)
MergeAll(acc, contribs) ==
    IF contribs = <<>> THEN acc
    ELSE MergeAll(_merge_skill(acc, Head(contribs).skill_id, Head(contribs).add_level,
                               Head(contribs).source_key),
                  Tail(contribs))

\* The rows of a join table that an unordered query returns, as contributions.
LinkContributions(rows, order, source_key) ==
    LET seq == Ordered(rows, LAMBDA l : l.id, order)
    IN [i \in 1..Len(seq) |->
          Contribution(seq[i].skill_id, Max(1, IntOr1(seq[i].level)), source_key)]

\* SetBonusContributions crediting a skill id that is not in the catalog to
\* the first skill of the catalog.
SetBonusContributions_defaulted(contribs) ==
    LET by_external(ext) == {id \in DOMAIN Skill : Skill[id].external_id = ext}
    IN [i \in 1..Len(contribs) |->
          Contribution(IF by_external(contribs[i].skill_external_id) = {} THEN 1
                       ELSE CHOOSE id \in by_external(contribs[i].skill_external_id) : TRUE,
                       Max(1, contribs[i].level), "set_bonus")]

\* The contributions of the set bonus map {skill_external_id: level}: an id
\* with no Skill in the catalog is skipped.
SetBonusContributions(contribs) ==
    LET by_external(ext) == {id \in DOMAIN Skill : Skill[id].external_id = ext}
        found == SelectSeq(contribs, LAMBDA c : by_external(c.skill_external_id) # {})
    IN [i \in 1..Len(found) |->
          Contribution(CHOOSE id \in by_external(found[i].skill_external_id) : TRUE,
                       Max(1, found[i].level), "set_bonus")]

\* The contributions of the armor pieces, the charm and the decorations of b.
EquipmentContributions(b, order) ==
    LET armor_ids == Range(_get_equipped_armors(b, order))
        deco_ids  == {d.decoration_id : d \in b.decorations}
    IN LinkContributions({l \in ArmorSkill : l.armor_id \in armor_ids}, order, "armor")
       \o (IF b.charm_id = None THEN <<>>
           ELSE LinkContributions({l \in CharmSkill : l.charm_id = b.charm_id}, order, "charm"))
       \o LinkContributions({l \in DecorationSkill : l.decoration_id \in deco_ids},
                            order, "decoration")

\* AllContributions with the decoration rows looked up once per socket and
\* not once per distinct decoration.
AllContributions_per_socket(b, order) ==
    LET armor_ids == Range(_get_equipped_armors(b, order))
        deco_ids  == {d.decoration_id : d \in b.decorations}
        sockets(id) == Cardinality({d \in b.decorations : d.decoration_id = id})
        deco_links == Ordered({l \in DecorationSkill : l.decoration_id \in deco_ids},
                              LAMBDA l : l.id, order)
        contribs  == _compute_set_bonus_skill_contribs(b, order)
        by_external(ext) == {id \in DOMAIN Skill : Skill[id].external_id = ext}
        found     == SelectSeq(contribs, LAMBDA c : by_external(c.skill_external_id) # {})
    IN LinkContributions({l \in ArmorSkill : l.armor_id \in armor_ids}, order, "armor")
       \o (IF b.charm_id = None THEN <<>>
           ELSE LinkContributions({l \in CharmSkill : l.charm_id = b.charm_id}, order, "charm"))
       \o [i \in 1..Len(deco_links) |->
             Contribution(deco_links[i].skill_id,
                          Max(1, IntOr1(deco_links[i].level)) * sockets(deco_links[i].decoration_id),
                          "decoration")]
       \o [i \in 1..Len(found) |->
             Contribution(CHOOSE id \in by_external(found[i].skill_external_id) : TRUE,
                          Max(1, found[i].level), "set_bonus")]

\* Every contribution of a build, in the order _compute_all_skills merges them.
AllContributions(b, order) ==
    EquipmentContributions(b, order)
        \o SetBonusContributions(_compute_set_bonus_skill_contribs(b, order))

_compute_all_skills(b, order) == _finalize_skills(MergeAll(<<>>, AllContributions(b, order)))

----------------------------------------------------------------------------
(* Weapon stats, defense and resistances *)

\* A stored field value as _pick_int_field sees it.
IntVal(n) == [t |-> "int", v |-> n]     \* an int
StrVal(n) == [t |-> "str", v |-> n]     \* the decimal string of n
NoneVal   == [t |-> "none", v |-> 0]    \* None
BadVal    == [t |-> "bad", v |-> 0]     \* a value int() rejects

_pick_int_field(val, default) ==
    CASE val.t = "none" -> default
      [] val.t = "int"  -> val.v
      [] val.t = "str"  -> val.v
      [] OTHER          -> default

NoWeaponStats ==
    [attack |-> [raw |-> 0, display |-> 0], affinity |-> 0,
     element |-> [type |-> NoneStr, value |-> 0]]

\* _compute_weapon_stats reading the first weapon of the store when the build
\* has none.
_compute_weapon_stats_any_weapon(b) ==
    LET w        == Weapon[IF b.weapon_id \in DOMAIN Weapon THEN b.weapon_id ELSE 1]
        raw      == _pick_int_field(w.attack_raw, 0)
        display  == _pick_int_field(w.attack_display, raw)
        affinity == _pick_int_field(w.affinity, 0)
        element_type  == IF w.element = "" THEN NoneStr ELSE w.element
        element_value == _pick_int_field(w.element_damage, 0)
    IN [attack   |-> [raw |-> raw, display |-> display],
        affinity |-> affinity,
        element  |-> IF element_type = NoneStr
                     THEN [type |-> NoneStr, value |-> 0]
                     ELSE [type |-> element_type, value |-> element_value]]

\* _compute_weapon_stats with display defaulting to 0 and not to raw.
_compute_weapon_stats_display_zero(b) ==
    IF b.weapon_id = None \/ b.weapon_id = 0 THEN NoWeaponStats
    ELSE IF b.weapon_id \notin DOMAIN Weapon THEN NoWeaponStats
    ELSE
      LET w        == Weapon[b.weapon_id]
          raw      == _pick_int_field(w.attack_raw, 0)
          display  == _pick_int_field(w.attack_display, 0)
          affinity == _pick_int_field(w.affinity, 0)
          element_type  == IF w.element = "" THEN NoneStr ELSE w.element
          element_value == _pick_int_field(w.element_damage, 0)
      IN [attack   |-> [raw |-> raw, display |-> display],
          affinity |-> affinity,
          element  |-> IF element_type = NoneStr
                       THEN [type |-> NoneStr, value |-> 0]
                       ELSE [type |-> element_type, value |-> element_value]]

\* _compute_weapon_stats reporting element_damage also for a weapon with no
\* element type.
_compute_weapon_stats_damage_kept(b) ==
    IF b.weapon_id = None \/ b.weapon_id = 0 THEN NoWeaponStats
    ELSE IF b.weapon_id \notin DOMAIN Weapon THEN NoWeaponStats
    ELSE
      LET w        == Weapon[b.weapon_id]
          raw      == _pick_int_field(w.attack_raw, 0)
          display  == _pick_int_field(w.attack_display, raw)
          affinity == _pick_int_field(w.affinity, 0)
          element_type  == IF w.element = "" THEN NoneStr ELSE w.element
          element_value == _pick_int_field(w.element_damage, 0)
      IN [attack   |-> [raw |-> raw, display |-> display],
          affinity |-> affinity,
          element  |-> [type |-> element_type, value |-> element_value]]

_compute_weapon_stats(b) ==
    IF b.weapon_id = None \/ b.weapon_id = 0 THEN NoWeaponStats
    ELSE IF b.weapon_id \notin DOMAIN Weapon THEN NoWeaponStats
    ELSE
      LET w        == Weapon[b.weapon_id]
          raw      == _pick_int_field(w.attack_raw, 0)
          display  == _pick_int_field(w.attack_display, raw)
          affinity == _pick_int_field(w.affinity, 0)
          element_type  == IF w.element = "" THEN NoneStr ELSE w.element
          element_value == _pick_int_field(w.element_damage, 0)
      IN [attack   |-> [raw |-> raw, display |-> display],
          affinity |-> affinity,
          element  |-> IF element_type = NoneStr
                       THEN [type |-> NoneStr, value |-> 0]
                       ELSE [type |-> element_type, value |-> element_value]]

\* _compute_defense adding up defense_max.
_compute_defense_of_max(b, order) ==
    LET armors == _get_equipped_armors(b, order)
    IN SumSeq([i \in 1..Len(armors) |->
                 _pick_int_field(IntVal(Armor[armors[i]].defense_max), 0)])

_compute_defense(b, order) ==
    LET armors == _get_equipped_armors(b, order)
    IN SumSeq([i \in 1..Len(armors) |->
                 _pick_int_field(IntVal(Armor[armors[i]].defense_base), 0)])

\* _compute_resistances with every total floored at 0.
_compute_resistances_floored(b, order) ==
    LET armors == _get_equipped_armors(b, order)
        total(field) == Max(0, SumSeq([i \in 1..Len(armors) |->
                                  _pick_int_field(IntVal(Armor[armors[i]][field]), 0)]))
    IN [fire    |-> total("res_fire"),
        water   |-> total("res_water"),
        thunder |-> total("res_thunder"),
        ice     |-> total("res_ice"),
        dragon  |-> total("res_dragon")]

_compute_resistances(b, order) ==
    LET armors == _get_equipped_armors(b, order)
        total(field) == SumSeq([i \in 1..Len(armors) |->
                                  _pick_int_field(IntVal(Armor[armors[i]][field]), 0)])
    IN [fire    |-> total("res_fire"),
        water   |-> total("res_water"),
        thunder |-> total("res_thunder"),
        ice     |-> total("res_ice"),
        dragon  |-> total("res_dragon")]

\* BuildStatsView.get, for a build that exists.
StatsReport(b, order) ==
    LET weapon == _compute_weapon_stats(b)
    IN [build_id |-> b.id,
        stats |-> [attack      |-> weapon.attack,
                   affinity    |-> weapon.affinity,
                   element     |-> weapon.element,
                   defense     |-> _compute_defense(b, order),
                   resistances |-> _compute_resistances(b, order)],
        skills      |-> _compute_all_skills(b, order),
        set_bonuses |-> _compute_set_bonuses(b, order)]

----------------------------------------------------------------------------
(* Build create / update (serializers.py, BuildCreateUpdateSerializer) *)

ArmorByExternal(ext) == {id \in DOMAIN Armor : Armor[id].external_id = ext}
WeaponByExternal(ext) == {id \in DOMAIN Weapon : Weapon[id].external_id = ext}
CharmByExternal(ext) == {id \in DOMAIN Charm : Charm[id].external_id = ext}
DecorationByExternal(ext) == {id \in DOMAIN Decoration : Decoration[id].external_id = ext}

\* Result of a validation helper: the value, or a ValidationError.
Valid(v) == [ok |-> TRUE, value |-> v]
ValidationError == [ok |-> FALSE, value |-> {}]

\* {"head": 6, ...} (external ids) to the set of (slot, armor id) pairs.
_build_armor_map_from_armors_dict(armors_dict) ==
    LET missing  == {s \in DOMAIN armors_dict : ArmorByExternal(armors_dict[s]) = {}}
        armor(s) == CHOOSE id \in ArmorByExternal(armors_dict[s]) : TRUE
        mismatch == {s \in DOMAIN armors_dict :
                        Lower(Strip(Armor[armor(s)].armor_type)) # s}
    IN IF \E s \in DOMAIN armors_dict : s \notin VALID_ARMOR_SLOTS THEN ValidationError
       ELSE IF missing # {} THEN ValidationError
       ELSE IF mismatch # {} THEN ValidationError
       ELSE Valid({[slot |-> s, armor_id |-> armor(s)] : s \in DOMAIN armors_dict})

_resolve_weapon_ids(ext) ==
    IF ext = None THEN Valid(None)
    ELSE IF WeaponByExternal(ext) = {} THEN [ok |-> FALSE, value |-> None]
    ELSE Valid(CHOOSE id \in WeaponByExternal(ext) : TRUE)

_resolve_charm_ids(ext) ==
    IF ext = None THEN Valid(None)
    ELSE IF CharmByExternal(ext) = {} THEN [ok |-> FALSE, value |-> None]
    ELSE Valid(CHOOSE id \in CharmByExternal(ext) : TRUE)

DecoEntry(slot, socket_index, ext) ==
    [slot |-> slot, socket_index |-> socket_index, decoration_external_id |-> ext]

_normalize_decorations_payload(decorations_data) ==
    LET entries == Range(decorations_data)
        deco(e) == CHOOSE id \in DecorationByExternal(e.decoration_external_id) : TRUE
    IN IF \E e \in entries : e.slot \notin VALID_DECO_SLOTS THEN ValidationError
       ELSE IF \E e \in entries : e.socket_index < 1 \/ e.socket_index > 3 THEN ValidationError
       ELSE IF \E e \in entries : DecorationByExternal(e.decoration_external_id) = {}
            THEN ValidationError
       ELSE Valid({[slot |-> e.slot, socket_index |-> e.socket_index,
                    decoration_id |-> deco(e)] : e \in entries})

PieceEntry(slot, armor_id, armor_external_id) ==
    [slot |-> slot, armor_id |-> armor_id, armor_external_id |-> armor_external_id]

\* armor_pieces entries to the list of (slot, armor id) pairs, in the order
\* of the entries.
_normalize_armor_pieces_payload(armor_pieces_data) ==
    LET n == Len(armor_pieces_data)
        by_id(e)  == IF e.armor_id \in DOMAIN Armor THEN {e.armor_id} ELSE {}
        by_ext(e) == IF e.armor_external_id = None THEN {}
                     ELSE ArmorByExternal(e.armor_external_id)
        found(e)  == IF e.armor_id # None /\ by_id(e) # {} THEN by_id(e) ELSE by_ext(e)
        armor(e)  == CHOOSE id \in found(e) : TRUE
        missing_internal == {i \in 1..n : armor_pieces_data[i].armor_id # None
                                          /\ by_id(armor_pieces_data[i]) = {}}
    IN IF \E i \in 1..n : armor_pieces_data[i].slot \notin VALID_ARMOR_SLOTS
       THEN ValidationError
       ELSE IF \E i \in 1..n : /\ armor_pieces_data[i].armor_id = None
                                /\ armor_pieces_data[i].armor_external_id = None
       THEN ValidationError
       ELSE IF \E i \in 1..n : found(armor_pieces_data[i]) = {} THEN ValidationError
       ELSE IF \E i \in 1..n :
                  Lower(Strip(Armor[armor(armor_pieces_data[i])].armor_type))
                      # armor_pieces_data[i].slot
       THEN ValidationError
       ELSE IF missing_internal # {} THEN ValidationError
       ELSE Valid([i \in 1..n |-> [slot |-> armor_pieces_data[i].slot,
                                   armor_id |-> armor(armor_pieces_data[i])]])

\* BuildArmorPiece.objects.create for each pair in turn, without the unique
\* constraint on (build, slot).
RECURSIVE CreateArmorPieces_unconstrained(_, _)
CreateArmorPieces_unconstrained(pieces, pairs) ==
    IF pairs = <<>> THEN Valid(pieces)
    ELSE CreateArmorPieces_unconstrained(pieces \cup {Head(pairs)}, Tail(pairs))

\* BuildArmorPiece.objects.create for each pair in turn: the row is refused
\* with an IntegrityError when the build has a piece in the slot already, and
\* the rows created before it stay.
RECURSIVE CreateArmorPieces(_, _)
CreateArmorPieces(pieces, pairs) ==
    IF pairs = <<>> THEN Valid(pieces)
    ELSE IF \E q \in pieces : q.slot = Head(pairs).slot
    THEN [ok |-> FALSE, value |-> pieces]
    ELSE CreateArmorPieces(pieces \cup {Head(pairs)}, Tail(pairs))

\* A request payload: keys is the set of keys the client sent.
Payload(keys, armors, decorations, weapon_external_id, charm_external_id) ==
    [keys |-> keys, armors |-> armors, armor_pieces |-> <<>>, decorations |-> decorations,
     weapon_external_id |-> weapon_external_id, charm_external_id |-> charm_external_id]

\* update with the armor pieces deleted also when the client sent neither
\* armors nor armor_pieces.
update_replacing(instance, p) ==
    LET has_armors      == "armors" \in p.keys
        has_decorations == "decorations" \in p.keys
        has_weapon      == "weapon_external_id" \in p.keys
        has_charm       == "charm_external_id" \in p.keys
        weapon == IF has_weapon THEN _resolve_weapon_ids(p.weapon_external_id)
                  ELSE Valid(instance.weapon_id)
        charm  == IF has_charm THEN _resolve_charm_ids(p.charm_external_id)
                  ELSE Valid(instance.charm_id)
        saved  == [instance EXCEPT !.weapon_id = weapon.value, !.charm_id = charm.value]
        has_armor_pieces == "armor_pieces" \in p.keys
        pairs  == _build_armor_map_from_armors_dict(p.armors)
        listed == _normalize_armor_pieces_payload(p.armor_pieces)
        pieces == IF listed.ok THEN CreateArmorPieces({}, listed.value) ELSE listed
        armored == IF has_armors THEN [saved EXCEPT !.armor_pieces = pairs.value]
                   ELSE IF has_armor_pieces THEN [saved EXCEPT !.armor_pieces = pieces.value]
                   ELSE [saved EXCEPT !.armor_pieces = {}]
        decos  == _normalize_decorations_payload(p.decorations)
        done   == IF has_decorations THEN [armored EXCEPT !.decorations = decos.value]
                  ELSE armored
    IN IF ~weapon.ok \/ ~charm.ok THEN [status |-> 400, instance |-> instance]
       ELSE IF has_armors /\ ~pairs.ok THEN [status |-> 400, instance |-> armored]
       ELSE IF ~has_armors /\ has_armor_pieces /\ ~listed.ok
            THEN [status |-> 400, instance |-> armored]
       ELSE IF ~has_armors /\ has_armor_pieces /\ ~pieces.ok
            THEN [status |-> 500, instance |-> armored]
       ELSE IF has_decorations /\ ~decos.ok THEN [status |-> 400, instance |-> done]
       ELSE [status |-> 200, instance |-> done]

\* update with the armors dict written over the stored pieces slot by slot:
\* the pieces of the slots the dict does not name stay.
update_merging(instance, p) ==
    LET has_armors      == "armors" \in p.keys
        has_decorations == "decorations" \in p.keys
        has_weapon      == "weapon_external_id" \in p.keys
        has_charm       == "charm_external_id" \in p.keys
        weapon == IF has_weapon THEN _resolve_weapon_ids(p.weapon_external_id)
                  ELSE Valid(instance.weapon_id)
        charm  == IF has_charm THEN _resolve_charm_ids(p.charm_external_id)
                  ELSE Valid(instance.charm_id)
        saved  == [instance EXCEPT !.weapon_id = weapon.value, !.charm_id = charm.value]
        has_armor_pieces == "armor_pieces" \in p.keys
        pairs  == _build_armor_map_from_armors_dict(p.armors)
        listed == _normalize_armor_pieces_payload(p.armor_pieces)
        pieces == IF listed.ok THEN CreateArmorPieces({}, listed.value) ELSE listed
        kept   == {q \in saved.armor_pieces : q.slot \notin DOMAIN p.armors}
        armored == IF has_armors THEN [saved EXCEPT !.armor_pieces = kept \cup pairs.value]
                   ELSE IF has_armor_pieces THEN [saved EXCEPT !.armor_pieces = pieces.value]
                   ELSE saved
        decos  == _normalize_decorations_payload(p.decorations)
        done   == IF has_decorations THEN [armored EXCEPT !.decorations = decos.value]
                  ELSE armored
    IN IF ~weapon.ok \/ ~charm.ok THEN [status |-> 400, instance |-> instance]
       ELSE IF has_armors /\ ~pairs.ok THEN [status |-> 400, instance |-> armored]
       ELSE IF ~has_armors /\ has_armor_pieces /\ ~listed.ok
            THEN [status |-> 400, instance |-> armored]
       ELSE IF ~has_armors /\ has_armor_pieces /\ ~pieces.ok
            THEN [status |-> 500, instance |-> armored]
       ELSE IF has_decorations /\ ~decos.ok THEN [status |-> 400, instance |-> done]
       ELSE [status |-> 200, instance |-> done]

\* BuildCreateUpdateSerializer.update: the stored build after the request
\* and the status of the response.  Each write is committed as it is made.
update(instance, p) ==
    LET has_armors      == "armors" \in p.keys
        has_decorations == "decorations" \in p.keys
        has_weapon      == "weapon_external_id" \in p.keys
        has_charm       == "charm_external_id" \in p.keys
        weapon == IF has_weapon THEN _resolve_weapon_ids(p.weapon_external_id)
                  ELSE Valid(instance.weapon_id)
        charm  == IF has_charm THEN _resolve_charm_ids(p.charm_external_id)
                  ELSE Valid(instance.charm_id)
        saved  == [instance EXCEPT !.weapon_id = weapon.value, !.charm_id = charm.value]
        has_armor_pieces == "armor_pieces" \in p.keys
        pairs  == _build_armor_map_from_armors_dict(p.armors)
        listed == _normalize_armor_pieces_payload(p.armor_pieces)
        pieces == IF listed.ok THEN CreateArmorPieces({}, listed.value) ELSE listed
        armored == IF has_armors THEN [saved EXCEPT !.armor_pieces = pairs.value]
                   ELSE IF has_armor_pieces THEN [saved EXCEPT !.armor_pieces = pieces.value]
                   ELSE saved
        decos  == _normalize_decorations_payload(p.decorations)
        done   == IF has_decorations THEN [armored EXCEPT !.decorations = decos.value]
                  ELSE armored
    IN IF ~weapon.ok \/ ~charm.ok THEN [status |-> 400, instance |-> instance]
       ELSE IF has_armors /\ ~pairs.ok THEN [status |-> 400, instance |-> armored]
       ELSE IF ~has_armors /\ has_armor_pieces /\ ~listed.ok
            THEN [status |-> 400, instance |-> armored]
       ELSE IF ~has_armors /\ has_armor_pieces /\ ~pieces.ok
            THEN [status |-> 500, instance |-> armored]
       ELSE IF has_decorations /\ ~decos.ok THEN [status |-> 400, instance |-> done]
       ELSE [status |-> 200, instance |-> done]

\* BuildCreateUpdateSerializer.create, for the build id the store assigns.
create(id, p) ==
    LET weapon == IF "weapon_external_id" \in p.keys
                  THEN _resolve_weapon_ids(p.weapon_external_id) ELSE Valid(None)
        charm  == IF "charm_external_id" \in p.keys
                  THEN _resolve_charm_ids(p.charm_external_id) ELSE Valid(None)
        made   == [id |-> id, weapon_id |-> weapon.value, charm_id |-> charm.value,
                   armor_pieces |-> {}, decorations |-> {}]
        listed == IF "armors" \notin p.keys /\ p.armor_pieces # <<>>
                  THEN _normalize_armor_pieces_payload(p.armor_pieces) ELSE Valid(<<>>)
        pieces == IF listed.ok THEN CreateArmorPieces({}, listed.value) ELSE listed
        pairs  == IF "armors" \in p.keys THEN _build_armor_map_from_armors_dict(p.armors)
                  ELSE pieces
        armored == [made EXCEPT !.armor_pieces = pairs.value]
        decos  == IF "decorations" \in p.keys /\ p.decorations # <<>>
                  THEN _normalize_decorations_payload(p.decorations) ELSE Valid({})
        done   == [armored EXCEPT !.decorations = decos.value]
    IN IF ~weapon.ok \/ ~charm.ok THEN [status |-> 400, instance |-> NoBuild]
       ELSE IF "armors" \notin p.keys /\ listed.ok /\ ~pieces.ok
            THEN [status |-> 500, instance |-> armored]
       ELSE IF ~pairs.ok THEN [status |-> 400, instance |-> made]
       ELSE IF ~decos.ok THEN [status |-> 400, instance |-> armored]
       ELSE [status |-> 201, instance |-> done]

----------------------------------------------------------------------------
(* Request payloads of the model *)

SlotOptions(s) == {0} \cup {Armor[id].external_id : id \in {a \in DOMAIN Armor : Armor[a].armor_type = s}}

ArmorsDictOf(h, c, g, w, l) ==
    LET full == [s \in VALID_ARMOR_SLOTS |->
                    CASE s = "head" -> h [] s = "chest" -> c [] s = "gloves" -> g
                      [] s = "waist" -> w [] OTHER -> l]
    IN [s \in {x \in VALID_ARMOR_SLOTS : full[x] # 0} |-> full[s]]

\* A dict that names an unknown armor, and one that names a chest armor for
\* the head slot.
InvalidArmorsDicts == {ArmorsDictOf(999, 0, 0, 0, 0), ArmorsDictOf(102, 0, 103, 0, 0)}

\* The dicts a build is created from: every dict that names, for some of the
\* slots, an armor of that slot's type, and the invalid ones.
ArmorsDicts ==
    {ArmorsDictOf(h, c, g, w, l) :
        h \in SlotOptions("head"), c \in SlotOptions("chest"), g \in SlotOptions("gloves"),
        w \in SlotOptions("waist"), l \in SlotOptions("legs")}
    \cup InvalidArmorsDicts

\* The dicts a build is patched with.
PatchArmorsDicts ==
    { ArmorsDictOf(0, 0, 0, 0, 0),
      ArmorsDictOf(101, 0, 0, 0, 0),
      ArmorsDictOf(106, 107, 0, 0, 0),
      ArmorsDictOf(0, 0, 103, 104, 105),
      ArmorsDictOf(101, 102, 103, 104, 105) }
    \cup InvalidArmorsDicts

DecorationsPayloads ==
    { <<>>,
      << DecoEntry("head", 1, 301) >>,
      << DecoEntry("head", 1, 301), DecoEntry("head", 2, 301) >>,
      << DecoEntry("head", 1, 301), DecoEntry("weapon", 1, 302) >>,
      << DecoEntry("head", 4, 301) >>,
      << DecoEntry("chest", 1, 999) >> }

NoArmors == ArmorsDictOf(0, 0, 0, 0, 0)

ArmorsPayloads == {Payload({"armors"}, d, <<>>, None, None) : d \in ArmorsDicts}
PatchArmorsPayloads == {Payload({"armors"}, d, <<>>, None, None) : d \in PatchArmorsDicts}
DecoPayloads   == {Payload({"decorations"}, NoArmors, d, None, None) : d \in DecorationsPayloads}
CharmPayloads  == {Payload({"charm_external_id"}, NoArmors, <<>>, None, c) : c \in {None, 201, 999}}
WeaponPayloads == {Payload({"weapon_external_id"}, NoArmors, <<>>, w, None) : w \in {None, 1001, 999}}
EmptyPayload   == Payload({}, NoArmors, <<>>, None, None)

\* armor_pieces lists: by armor id, by external id, empty, two pieces for one
\* slot, a slot of another type, no armor named, an armor id that is unknown.
ArmorPiecesLists ==
    { <<>>,
      << PieceEntry("head", 1, None) >>,
      << PieceEntry("head", None, 106), PieceEntry("chest", 2, None) >>,
      << PieceEntry("head", 1, None), PieceEntry("head", 6, None) >>,
      << PieceEntry("legs", 5, None), PieceEntry("head", 1, None), PieceEntry("legs", 5, None) >>,
      << PieceEntry("head", 3, None) >>,
      << PieceEntry("chest", None, None) >>,
      << PieceEntry("head", 99, 101) >> }

ArmorPiecesPayloads ==
    {[Payload({"armor_pieces"}, NoArmors, <<>>, None, None) EXCEPT !.armor_pieces = l] :
        l \in ArmorPiecesLists}

\* Payloads of more than one key.
MixedPayloads ==
    { Payload({"weapon_external_id", "charm_external_id"}, NoArmors, <<>>, 1001, 201),
      Payload({"decorations", "charm_external_id"}, NoArmors,
              << DecoEntry("weapon", 1, 302) >>, None, None),
      Payload({"armors", "weapon_external_id"}, ArmorsDictOf(0, 107, 0, 0, 0), <<>>, None, None),
      [Payload({"armors", "armor_pieces"}, ArmorsDictOf(106, 0, 0, 0, 0), <<>>, None, None)
           EXCEPT !.armor_pieces = << PieceEntry("legs", 5, None) >>] }

PatchPayloads ==
    PatchArmorsPayloads \cup ArmorPiecesPayloads \cup DecoPayloads \cup CharmPayloads
        \cup WeaponPayloads \cup MixedPayloads \cup {EmptyPayload}

----------------------------------------------------------------------------
(* Requests *)

BuildIds == {1, 2}      \* the ids a client asks for; the store assigns id 1

NoBody == [build_id |-> 0]
NoResponse == [kind |-> "none", id |-> 0, status |-> 0, body |-> NoBody]

\* POST /api/v1/mhw/builds/
CreateFrom(payloads) ==
    /\ build = NoBuild
    /\ \E p \in payloads :
          LET r == create(1, p)
          IN /\ build' = r.instance
             /\ response' = [kind |-> "build", id |-> r.instance.id, status |-> r.status,
                              body |-> NoBody]
    /\ previous' = NoResponse
    /\ UNCHANGED <<SetBonusRank, Weapon, patch_in_flight, stats_in_flight,
                   Monster, MonsterWeakness, MonsterResistance>>

\* PATCH /api/v1/mhw/builds/{id}/
PatchFrom(payloads) ==
    /\ build # NoBuild
    /\ \E p \in payloads :
          LET r == update(build, p)
          IN /\ build' = r.instance
             /\ response' = [kind |-> "build", id |-> r.instance.id, status |-> r.status,
                              body |-> NoBody]
    /\ previous' = NoResponse
    /\ UNCHANGED <<SetBonusRank, Weapon, patch_in_flight, stats_in_flight,
                   Monster, MonsterWeakness, MonsterResistance>>

Create           == CreateFrom({EmptyPayload} \cup ArmorsPayloads)
PatchArmors      == PatchFrom(PatchArmorsPayloads)
PatchCharm       == PatchFrom(CharmPayloads)
PatchDecorations == PatchFrom(DecoPayloads)
CreateWithWeapon == CreateFrom({EmptyPayload} \cup WeaponPayloads)
PatchWeapon      == PatchFrom(WeaponPayloads)
CreateWithPieces == CreateFrom({EmptyPayload} \cup ArmorPiecesPayloads)
PatchArmorPieces == PatchFrom(ArmorPiecesPayloads)
PatchMixed       == PatchFrom(MixedPayloads \cup {EmptyPayload})

\* GetStats without get_object's lookup: a report for whatever build is stored.
GetStats_without_lookup ==
    /\ \E id \in BuildIds, order \in StoreOrders :
          response' = [kind |-> "stats", id |-> id, status |-> 200,
                       body |-> StatsReport(build, order)]
    /\ previous' = IF response.kind = "stats" /\ response.status = 200
                   THEN response ELSE NoResponse
    /\ UNCHANGED <<SetBonusRank, Weapon, build, patch_in_flight, stats_in_flight,
                   Monster, MonsterWeakness, MonsterResistance>>

\* GetStats saving the build it reports on, with its decorations cleared.
GetStats_saving ==
    /\ \E id \in BuildIds, order \in StoreOrders :
          IF build # NoBuild /\ build.id = id
          THEN response' = [kind |-> "stats", id |-> id, status |-> 200,
                            body |-> StatsReport(build, order)]
          ELSE response' = [kind |-> "stats", id |-> id, status |-> 404, body |-> NoBody]
    /\ previous' = IF response.kind = "stats" /\ response.status = 200
                   THEN response ELSE NoResponse
    /\ build' = [build EXCEPT !.decorations = {}]
    /\ UNCHANGED <<SetBonusRank, Weapon, patch_in_flight, stats_in_flight,
                   Monster, MonsterWeakness, MonsterResistance>>

\* GET /api/v1/mhw/builds/{id}/stats/ : BuildStatsView.get.  order is the order
\* in which the store returns the rows of the unordered queries of this request.
GetStats ==
    /\ \E id \in BuildIds, order \in StoreOrders :
          IF build # NoBuild /\ build.id = id
          THEN response' = [kind |-> "stats", id |-> id, status |-> 200,
                            body |-> StatsReport(build, order)]
          ELSE response' = [kind |-> "stats", id |-> id, status |-> 404, body |-> NoBody]
    /\ previous' = IF response.kind = "stats" /\ response.status = 200
                   THEN response ELSE NoResponse
    /\ UNCHANGED <<SetBonusRank, Weapon, build, patch_in_flight, stats_in_flight,
                   Monster, MonsterWeakness, MonsterResistance>>

----------------------------------------------------------------------------
(* Monster import (management/commands/import_mhw.py) *)

\* bool(s) of a str or None
Truthy(s) == s # NoneStr /\ s # ""

\* a or b, on str / None
OrStr(a, b) == IF Truthy(a) THEN a ELSE b

\* The dicts of a monsters file; a key that the dict does not have is
\* NoneStr (None for stars and id).
WeaknessEntry(kind, name, element, stars, condition) ==
    [kind |-> kind, name |-> name, element |-> element, stars |-> stars,
     condition |-> condition]

ResistanceEntry(element, condition) == [element |-> element, condition |-> condition]

MonsterEntry(id, name, species, elements, weaknesses, resistances) ==
    [id |-> id, name |-> name, species |-> species, elements |-> elements,
     weaknesses |-> weaknesses, resistances |-> resistances]

pick_external_id(m) == m.id

pick_kind(w) == OrStr(w.kind, w.element)

\* The stars of a weakness dict: w.get("stars") or w.get("level") or 0.
StarsOf(w) == IF w.stars = None THEN 0 ELSE w.stars

detect_mhw_db_format(monsters) ==
    \E i \in 1..Min(Len(monsters), 10) :
        /\ monsters[i].weaknesses # <<>>
        /\ LET first == monsters[i].weaknesses[1]
           IN first.element # NoneStr \/ first.stars # None

normalize_weaknesses_mhwdb(raw) ==
    LET kept == SelectSeq(raw, LAMBDA w : Truthy(OrStr(w.element, w.name)))
    IN [i \in 1..Len(kept) |->
          [kind |-> "element", name |-> Title(OrStr(kept[i].element, kept[i].name)),
           stars |-> StarsOf(kept[i]), condition |-> kept[i].condition]]

normalize_weaknesses_test(raw) ==
    LET kind(w) == OrStr(pick_kind(w), "unknown")
        name(w) == OrStr(w.name, w.element)
        kept == SelectSeq(raw, LAMBDA w : ~(kind(w) = "unknown" /\ ~Truthy(name(w))))
    IN [i \in 1..Len(kept) |->
          [kind |-> kind(kept[i]), name |-> name(kept[i]),
           stars |-> StarsOf(kept[i]), condition |-> kept[i].condition]]

normalize_primary_element(elements_field) ==
    IF elements_field = <<>> THEN NoneStr
    ELSE LET v == Lower(Strip(elements_field[1]))
         IN IF v = "" THEN NoneStr ELSE v

\* cond.strip() or None
StripOrNone(cond) == IF cond = NoneStr \/ Strip(cond) = "" THEN NoneStr ELSE Strip(cond)

normalize_resistances_mhwdb(raw) ==
    LET el(r) == Lower(Strip(r.element))
        kept  == SelectSeq(raw, LAMBDA r : Truthy(r.element) /\ el(r) # "")
    IN [i \in 1..Len(kept) |->
          [element |-> el(kept[i]), condition |-> StripOrNone(kept[i].condition)]]

\* The three monster tables as one value.
Store(monsters, weaknesses, resistances) ==
    [Monster |-> monsters, MonsterWeakness |-> weaknesses, MonsterResistance |-> resistances]

EmptyStore == Store(<<>>, EmptyBag, EmptyBag)

\* The rows of a bag that belong to other monsters: filter(monster=...).delete()
WithoutRowsOf(bag, monster_id) ==
    [r \in {x \in DOMAIN bag : x.monster_id # monster_id} |-> bag[r]]

\* DedupeWeaknesses with the last stars seen for a key kept, not the highest.
RECURSIVE DedupeWeaknesses_keeping_last(_, _)
DedupeWeaknesses_keeping_last(weaknesses_norm, seen) ==
    IF weaknesses_norm = <<>> THEN seen
    ELSE
      LET w     == Head(weaknesses_norm)
          cond  == StripOrNone(w.condition)
          stars == w.stars
          condition_key == IF cond # NoneStr THEN Slugify(cond) ELSE ""
          key   == <<w.kind, w.name, condition_key>>
          at    == {i \in 1..Len(seen) : seen[i].key = key}
          next  == IF ~Truthy(w.name) THEN seen
                   ELSE IF stars <= 0 THEN seen
                   ELSE IF at = {}
                        THEN Append(seen, [key |-> key, stars |-> stars, cond |-> cond])
                   ELSE LET i == CHOOSE j \in at : TRUE
                        IN [seen EXCEPT ![i] = [key |-> key, stars |-> stars, cond |-> cond]]
      IN DedupeWeaknesses_keeping_last(Tail(weaknesses_norm), next)

\* The loop that fills seen_weakness: an insertion-ordered dict from
\* (kind, name, condition_key) to (stars, cond), with the highest stars.
RECURSIVE DedupeWeaknesses(_, _)
DedupeWeaknesses(weaknesses_norm, seen) ==
    IF weaknesses_norm = <<>> THEN seen
    ELSE
      LET w     == Head(weaknesses_norm)
          cond  == StripOrNone(w.condition)
          stars == w.stars
          condition_key == IF cond # NoneStr THEN Slugify(cond) ELSE ""
          key   == <<w.kind, w.name, condition_key>>
          at    == {i \in 1..Len(seen) : seen[i].key = key}
          next  == IF ~Truthy(w.name) THEN seen
                   ELSE IF stars <= 0 THEN seen
                   ELSE IF at = {}
                        THEN Append(seen, [key |-> key, stars |-> stars, cond |-> cond])
                   ELSE LET i == CHOOSE j \in at : TRUE
                        IN IF stars > seen[i].stars
                           THEN [seen EXCEPT ![i] = [key |-> key, stars |-> stars, cond |-> cond]]
                           ELSE seen
      IN DedupeWeaknesses(Tail(weaknesses_norm), next)

\* The loop that fills seen_res: the first resistance of each
\* (element, condition_key).
RECURSIVE DedupeResistances(_, _)
DedupeResistances(resistances_norm, seen) ==
    IF resistances_norm = <<>> THEN seen
    ELSE
      LET r    == Head(resistances_norm)
          cond == StripOrNone(r.condition)
          condition_key == IF cond # NoneStr THEN Slugify(cond) ELSE ""
          key  == <<r.element, condition_key>>
          next == IF ~Truthy(r.element) THEN seen
                  ELSE IF \E i \in 1..Len(seen) : seen[i].key = key THEN seen
                  ELSE Append(seen, [key |-> key, cond |-> cond])
      IN DedupeResistances(Tail(resistances_norm), next)

\* The summary the command counts.
NoCounts == [monsters_created |-> 0, monsters_updated |-> 0, monsters_skipped |-> 0,
             monsters_failed |-> 0, weaknesses_created |-> 0, resistances_created |-> 0]

\* The body of the loop of handle for one monster dict m: the store and the
\* counters after it.  The writes of one monster are one transaction; a row
\* that the constraint chk_monsterweakness_stars_1_3 refuses rolls it back.
ImportMonster(st, counts, m, is_mhw_db_format, dry_run) ==
    LET external_id == pick_external_id(m)
        name        == m.name
        primary_element  == normalize_primary_element(m.elements)
        resistances_norm == normalize_resistances_mhwdb(m.resistances)
        monster_type     == OrStr(m.species, "")
        is_elder_dragon  == IF is_mhw_db_format THEN Lower(monster_type) = "elder dragon"
                            ELSE FALSE
        weaknesses_norm  == IF is_mhw_db_format THEN normalize_weaknesses_mhwdb(m.weaknesses)
                            ELSE normalize_weaknesses_test(m.weaknesses)
        row == [external_id |-> external_id, name |-> name, monster_type |-> monster_type,
                is_elder_dragon |-> is_elder_dragon, primary_element |-> primary_element,
                primary_ailment |-> NoneStr]
        at       == {i \in 1..Len(st.Monster) : st.Monster[i].external_id = external_id}
        created  == at = {}
        monsters == IF created THEN Append(st.Monster, row)
                    ELSE [st.Monster EXCEPT ![CHOOSE i \in at : TRUE] = row]
        pk       == IF created THEN Len(st.Monster) + 1 ELSE CHOOSE i \in at : TRUE
        seen_weakness == DedupeWeaknesses(weaknesses_norm, <<>>)
        refused  == {i \in 1..Len(seen_weakness) : seen_weakness[i].stars > 3}
        made     == IF refused = {} THEN Len(seen_weakness)
                    ELSE (CHOOSE i \in refused : \A j \in refused : i <= j) - 1
        weaknesses ==
            WithoutRowsOf(st.MonsterWeakness, pk)
              (+) SetToBag({[monster_id |-> pk, kind |-> seen_weakness[i].key[1],
                             name |-> seen_weakness[i].key[2], stars |-> seen_weakness[i].stars,
                             condition |-> seen_weakness[i].cond,
                             condition_key |-> seen_weakness[i].key[3]] :
                                i \in 1..Len(seen_weakness)})
        seen_res == DedupeResistances(resistances_norm, <<>>)
        resistances ==
            WithoutRowsOf(st.MonsterResistance, pk)
              (+) SetToBag({[monster_id |-> pk, element |-> seen_res[i].key[1],
                             condition |-> seen_res[i].cond,
                             condition_key |-> seen_res[i].key[2]] :
                                i \in 1..Len(seen_res)})
        counted  == IF created
                    THEN [counts EXCEPT !.monsters_created = @ + 1]
                    ELSE [counts EXCEPT !.monsters_updated = @ + 1]
    IN IF external_id = None \/ ~Truthy(name)
       THEN [store |-> st, counts |-> [counts EXCEPT !.monsters_skipped = @ + 1]]
       ELSE IF dry_run
       THEN [store |-> st,
             counts |-> [counts EXCEPT
                            !.monsters_created = @ + 1,
                            !.weaknesses_created = @ + Len(weaknesses_norm),
                            !.resistances_created = @ + Len(resistances_norm)]]
       ELSE IF refused # {}
       THEN [store |-> st,
             counts |-> [counted EXCEPT !.weaknesses_created = @ + made,
                                        !.monsters_failed = @ + 1]]
       ELSE [store |-> Store(monsters, weaknesses, resistances),
             counts |-> [counted EXCEPT !.weaknesses_created = @ + Len(seen_weakness),
                                        !.resistances_created = @ + Len(seen_res)]]

RECURSIVE ImportMonsters(_, _, _, _, _)
ImportMonsters(st, counts, monsters, is_mhw_db_format, dry_run) ==
    IF monsters = <<>> THEN [store |-> st, counts |-> counts]
    ELSE LET r == ImportMonster(st, counts, Head(monsters), is_mhw_db_format, dry_run)
         IN ImportMonsters(r.store, r.counts, Tail(monsters), is_mhw_db_format, dry_run)

\* The options of the command.
Options(reset, dry_run, limit) == [reset |-> reset, dry_run |-> dry_run, limit |-> limit]

\* Command.handle on the list of monster dicts of the file.
handle(st, payload, options) ==
    LET monsters == IF options.limit > 0
                    THEN SubSeq(payload, 1, Min(options.limit, Len(payload)))
                    ELSE payload
        emptied  == IF options.reset /\ ~options.dry_run THEN EmptyStore ELSE st
    IN IF payload = <<>> THEN [store |-> st, counts |-> NoCounts]
       ELSE ImportMonsters(emptied, NoCounts, monsters,
                           detect_mhw_db_format(monsters), options.dry_run)

\* The monsters files of the model, by path.
MhwWeakness(element, stars, condition) ==
    WeaknessEntry(NoneStr, NoneStr, element, stars, condition)

MonsterFiles ==
    [path \in {"monsters.json", "dupes.json", "custom.json", "empty.json"} |->
        CASE path = "monsters.json" ->
               << MonsterEntry(1, "Jyuratodus", "piscine wyvern", <<"Water">>,
                      << MhwWeakness("fire", 1, NoneStr),
                         MhwWeakness("water", 3, "covered in mud"),
                         MhwWeakness("fire", 2, NoneStr),
                         MhwWeakness("water", 1, "Covered in mud!") >>,
                      << ResistanceEntry("water", NoneStr), ResistanceEntry("Water", NoneStr) >>),
                  MonsterEntry(2, "Nergigante", "Elder Dragon", <<>>,
                      << MhwWeakness("fire", 3, NoneStr) >>, <<>>) >>
          [] path = "dupes.json" ->
               << MonsterEntry(3, "Anjanath", "brute wyvern", <<"fire">>,
                      << MhwWeakness("water", 3, NoneStr) >>,
                      << ResistanceEntry("fire", NoneStr) >>),
                  MonsterEntry(3, "Anjanath", "brute wyvern", <<"fire">>,
                      << MhwWeakness("water", 2, NoneStr), MhwWeakness("", 3, NoneStr) >>,
                      << ResistanceEntry("fire", "covered in mud") >>),
                  MonsterEntry(4, "Refused", "", <<>>,
                      << MhwWeakness("water", 1, NoneStr), MhwWeakness("fire", 5, NoneStr) >>,
                      <<>>),
                  MonsterEntry(None, "No id", "", <<>>, <<>>, <<>>),
                  MonsterEntry(5, "", "", <<>>, <<>>, <<>>) >>
          [] path = "custom.json" ->
               << MonsterEntry(6, "Custom", "", <<"fire">>,
                      << WeaknessEntry("ailment", "Poison", NoneStr, None, NoneStr) >>,
                      <<>>) >>
          [] OTHER -> <<>>]

\* The command lines of the model.
ImportCommands ==
    { [path |-> "monsters.json", options |-> Options(FALSE, FALSE, 0)],
      [path |-> "monsters.json", options |-> Options(FALSE, FALSE, 1)],
      [path |-> "dupes.json",    options |-> Options(FALSE, FALSE, 0)],
      [path |-> "dupes.json",    options |-> Options(TRUE, FALSE, 0)],
      [path |-> "custom.json",   options |-> Options(FALSE, FALSE, 0)],
      [path |-> "custom.json",   options |-> Options(FALSE, TRUE, 0)],
      [path |-> "empty.json",    options |-> Options(TRUE, FALSE, 0)] }

\* python manage.py import_mhw --monsters path [--reset] [--dry-run] [--limit n]
ImportFrom(path, options) ==
    /\ LET r == handle(Store(Monster, MonsterWeakness, MonsterResistance),
                       MonsterFiles[path], options)
       IN /\ Monster' = r.store.Monster
          /\ MonsterWeakness' = r.store.MonsterWeakness
          /\ MonsterResistance' = r.store.MonsterResistance
          /\ response' = [kind |-> "import", id |-> 0, status |-> 0,
                          body |-> [path |-> path, options |-> options, counts |-> r.counts]]
    /\ previous' = IF response.kind = "import" THEN response ELSE NoResponse
    /\ UNCHANGED <<SetBonusRank, Weapon, build, patch_in_flight, stats_in_flight>>

Import == \E c \in ImportCommands : ImportFrom(c.path, c.options)

----------------------------------------------------------------------------
(* Monster list (api_views.py, MonsterListView) *)

ALLOWED_ORDER_FIELDS == {"id", "name", "monster_type", "is_elder_dragon"}

\* The query parameters; a parameter that was not sent is NoneStr (NoneVal).
Params(is_elder_dragon, element, min_stars, order_by) ==
    [is_elder_dragon |-> is_elder_dragon, element |-> element, min_stars |-> min_stars,
     order_by |-> order_by]

\* The number of rows of the bag that satisfy test.
CountRows(bag, test(_)) ==
    LET rows == {r \in DOMAIN bag : test(r)}
        f    == [r \in rows |-> bag[r]]
    IN SumOver(rows, f)

\* MonsterListView.get_queryset: the primary keys of the monsters of the
\* response, in its order.  The joins of the two filter() calls on weaknesses
\* are separate: the weakness row that has the stars need not be the one that
\* has the name.
get_queryset(params) ==
    LET value == Lower(Strip(params.is_elder_dragon))
        elder(i) ==
            IF params.is_elder_dragon = NoneStr THEN TRUE
            ELSE IF value \in {"true", "1", "yes"} THEN Monster[i].is_elder_dragon
            ELSE IF value \in {"false", "0", "no"} THEN ~Monster[i].is_elder_dragon
            ELSE TRUE
        by_element == Truthy(params.element)
        by_stars   == /\ by_element
                      /\ params.min_stars.t = "int"
                      /\ 1 <= params.min_stars.v /\ params.min_stars.v <= 3
        named(i) == CountRows(MonsterWeakness,
                        LAMBDA w : /\ w.monster_id = i
                                   /\ w.kind = "element"
                                   /\ Lower(w.name) = Lower(Strip(params.element)))
        starred(i) == CountRows(MonsterWeakness,
                        LAMBDA w : w.monster_id = i /\ w.stars >= params.min_stars.v)
        joined(i) == IF ~elder(i) THEN 0
                     ELSE IF ~by_element THEN 1
                     ELSE IF by_stars THEN named(i) * starred(i)
                     ELSE named(i)
        copies(i) == IF by_element THEN Min(1, joined(i)) ELSE joined(i)
        field == IF Truthy(params.order_by)
                    /\ (params.order_by \in ALLOWED_ORDER_FIELDS \/ params.order_by = "-id")
                 THEN params.order_by ELSE "id"
        n     == Len(Monster)
        ids   == [k \in 1..n |-> IF field = "-id" THEN n + 1 - k ELSE k]
    IN Concat([k \in 1..n |-> [j \in 1..copies(ids[k]) |-> ids[k]]])

\* The requests of the model; ordering by a field other than id is not drawn.
ListParams ==
    {Params(NoneStr, element, min_stars, NoneStr) :
        element \in {"fire", " Fire "}, min_stars \in {IntVal(1), IntVal(3)}}
    \cup { Params(NoneStr, NoneStr, NoneVal, NoneStr),
           Params("true", NoneStr, NoneVal, "-id"),
           Params("no", "fire", NoneVal, NoneStr),
           Params(NoneStr, NoneStr, IntVal(3), "bogus"),
           Params(NoneStr, "fire", IntVal(999), "-id"),
           Params(NoneStr, "fire", BadVal, NoneStr) }

\* GET /api/v1/mhw/monsters/
ListMonsters ==
    /\ \E params \in ListParams :
          response' = [kind |-> "monsters", id |-> 0, status |-> 200,
                       body |-> [params |-> params, results |-> get_queryset(params)]]
    /\ previous' = NoResponse
    /\ UNCHANGED <<SetBonusRank, Weapon, build, patch_in_flight, stats_in_flight,
                   Monster, MonsterWeakness, MonsterResistance>>

----------------------------------------------------------------------------
(* Build recommendation (build_logic.py) *)

\* x or 0, for the value of an integer column
IntOr0(val) == IF val.t = "int" THEN val.v ELSE 0

\* The weaknesses of a monster, one element per row.
WeaknessesOf(monster) ==
    {[row |-> w, copy |-> k] :
        w \in {x \in DOMAIN MonsterWeakness : x.monster_id = monster},
        k \in 1..3}
    \ {c \in [row : DOMAIN MonsterWeakness, copy : 1..3] : c.copy > MonsterWeakness[c.row]}

\* 4 * score_weapon, which adds a quarter of the affinity.
score_weapon(monster, weapon) ==
    LET w       == Weapon[weapon]
        matches == {c \in WeaknessesOf(monster) :
                        c.row.kind = "element" /\ Lower(c.row.name) = Lower(w.element)}
        stars   == [c \in matches |-> IF c.row.stars = 0 THEN 1 ELSE c.row.stars]
    IN 4 * IntOr0(w.attack_raw)
       + (IF Truthy(w.element) THEN 4 * 30 * SumOver(matches, stars) ELSE 0)
       + IntOr0(w.affinity)

\* hasattr(armor, "res_" + element): the resistance columns of Armor.
ResistanceFieldOf(element) ==
    CASE element = "fire"    -> "res_fire"
      [] element = "water"   -> "res_water"
      [] element = "thunder" -> "res_thunder"
      [] element = "ice"     -> "res_ice"
      [] element = "dragon"  -> "res_dragon"
      [] OTHER               -> NoneStr

score_armor(monster, armor) ==
    LET links == {l \in ArmorSkill : l.armor_id = armor}
        level == [l \in links |-> Skill[l.skill_id].max_level]
        defense_score == Armor[armor].defense_max
        skill_score   == SumOver(links, level) * 10
        primary_element  == Monster[monster].primary_element
        resistance_field == ResistanceFieldOf(Lower(primary_element))
        resistance_value == Armor[armor][resistance_field]
        resistance_bonus ==
            IF ~Truthy(primary_element) \/ resistance_field = NoneStr THEN 0
            ELSE IF resistance_value >= 0 THEN resistance_value * 15
            ELSE resistance_value * 30
    IN defense_score + skill_score + resistance_bonus

\* armors: the chosen armors, None for a slot without one.
get_armor_skill_names(armors) ==
    {Skill[l.skill_id].name : l \in {x \in ArmorSkill : x.armor_id \in armors \ {None}}}

score_charm(charm, armor_skill_names) ==
    LET links == {l \in CharmSkill : l.charm_id = charm}
        level == [l \in links |-> Skill[l.skill_id].max_level]
        base_score    == SumOver(links, level) * 10
        synergy_bonus == 25 * Cardinality({l \in links :
                                             Skill[l.skill_id].name \in armor_skill_names})
    IN base_score + synergy_bonus

\* sorted(rows, key=score, reverse=True)[0] if rows else None, for the rows
\* of an unordered query in the order the store returns them.
BestOf(rows, score(_), order) ==
    LET listed == Ordered(rows, LAMBDA x : x, order)
        sorted == StableSort(listed, LAMBDA x, y : score(x) > score(y))
    IN IF rows = {} THEN None ELSE sorted[1]

\* best_build_fast with the lists sorted without reverse=True.
best_build_fast_ascending(monster, order, stored) ==
    LET WorstOf(rows, score(_)) ==
            LET listed == Ordered(rows, LAMBDA x : x, order)
                sorted == StableSort(listed, LAMBDA x, y : score(x) < score(y))
            IN IF rows = {} THEN None ELSE sorted[1]
        armors(slot) == {a \in stored : Armor[a].armor_type = slot}
        best(slot)   == WorstOf(armors(slot), LAMBDA a : score_armor(monster, a))
        armor_skill_names ==
            get_armor_skill_names({best("head"), best("chest"), best("legs"),
                                   best("gloves"), best("waist")})
    IN [weapon |-> WorstOf(DOMAIN Weapon, LAMBDA w : score_weapon(monster, w)),
        head   |-> best("head"),
        chest  |-> best("chest"),
        legs   |-> best("legs"),
        gloves |-> best("gloves"),
        waist  |-> best("waist"),
        charm  |-> WorstOf(DOMAIN Charm, LAMBDA c : score_charm(c, armor_skill_names))]

\* best_build_fast(monster), with the Armor rows the store holds (stored).
best_build_fast(monster, order, stored) ==
    LET armors(slot) == {a \in stored : Armor[a].armor_type = slot}
        best(slot)   == BestOf(armors(slot), LAMBDA a : score_armor(monster, a), order)
        armor_skill_names ==
            get_armor_skill_names({best("head"), best("chest"), best("legs"),
                                   best("gloves"), best("waist")})
    IN [weapon |-> BestOf(DOMAIN Weapon, LAMBDA w : score_weapon(monster, w), order),
        head   |-> best("head"),
        chest  |-> best("chest"),
        legs   |-> best("legs"),
        gloves |-> best("gloves"),
        waist  |-> best("waist"),
        charm  |-> BestOf(DOMAIN Charm, LAMBDA c : score_charm(c, armor_skill_names), order)]

\* The Armor tables best_build_fast is called on: the catalog, and the catalog
\* without an armor for the legs.
ArmorCatalogs == {DOMAIN Armor, {a \in DOMAIN Armor : Armor[a].armor_type # "legs"}}

\* best_build_fast(monster) for a stored monster; order is the order in which
\* the store returns the rows of the unordered queries of the call.
BestBuild ==
    /\ \E monster \in 1..Len(Monster), order \in StoreOrders, stored \in ArmorCatalogs :
          response' = [kind |-> "best_build", id |-> monster, status |-> 200,
                       body |-> [order |-> order, stored |-> stored,
                                 build |-> best_build_fast(monster, order, stored)]]
    /\ previous' = NoResponse
    /\ UNCHANGED <<SetBonusRank, Weapon, build, patch_in_flight, stats_in_flight,
                   Monster, MonsterWeakness, MonsterResistance>>

----------------------------------------------------------------------------
(* Requests that run concurrently, one database statement at a time *)

\* The PATCH payloads of the concurrent runs: valid armors dicts only.
ConcurrentPayloads ==
    {Payload({"armors"}, d, <<>>, None, None) :
        d \in { ArmorsDictOf(0, 0, 0, 0, 0),
                ArmorsDictOf(106, 107, 0, 0, 0),
                ArmorsDictOf(0, 0, 103, 104, 0) }}

\* The builds stored before the concurrent runs start.
ConcurrentBuilds ==
    {create(1, Payload({"armors"}, d, <<>>, None, None)).instance :
        d \in { ArmorsDictOf(101, 102, 0, 0, 0),
                ArmorsDictOf(101, 0, 103, 0, 105) }}

NoPatch == [pc |-> "idle", before |-> NoBuild, payload |-> EmptyPayload, todo |-> {}]

NoStats == [pc |-> "idle", order |-> "asc", row |-> NoBuild, set_bonuses |-> <<>>,
            defense |-> 0, resistances |-> _compute_resistances(NoBuild, "asc"),
            sources |-> <<>>, report |-> NoBody]

\* update up to instance.save(): the scalar fields of the row are written.
PatchSave ==
    /\ patch_in_flight.pc = "idle"
    /\ build # NoBuild
    /\ \E p \in ConcurrentPayloads :
          patch_in_flight' = [pc |-> "saved", before |-> build, payload |-> p, todo |-> {}]
    /\ UNCHANGED <<SetBonusRank, Weapon, build, response, previous, stats_in_flight,
                   Monster, MonsterWeakness, MonsterResistance>>

\* PatchDeletePieces with only the pieces of the slots of the dict deleted.
PatchDeletePieces_of_named_slots ==
    /\ patch_in_flight.pc = "saved"
    /\ "armors" \in patch_in_flight.payload.keys
    /\ build' = [build EXCEPT !.armor_pieces =
                    {q \in @ : q.slot \notin DOMAIN patch_in_flight.payload.armors}]
    /\ patch_in_flight' =
          [patch_in_flight EXCEPT
              !.pc = "deleted",
              !.todo = _build_armor_map_from_armors_dict(patch_in_flight.payload.armors).value]
    /\ UNCHANGED <<SetBonusRank, Weapon, response, previous, stats_in_flight,
                   Monster, MonsterWeakness, MonsterResistance>>

\* BuildArmorPiece.objects.filter(build=instance).delete(), then the pairs of
\* the dict are looked up.
PatchDeletePieces ==
    /\ patch_in_flight.pc = "saved"
    /\ "armors" \in patch_in_flight.payload.keys
    /\ build' = [build EXCEPT !.armor_pieces = {}]
    /\ patch_in_flight' =
          [patch_in_flight EXCEPT
              !.pc = "deleted",
              !.todo = _build_armor_map_from_armors_dict(patch_in_flight.payload.armors).value]
    /\ UNCHANGED <<SetBonusRank, Weapon, response, previous, stats_in_flight,
                   Monster, MonsterWeakness, MonsterResistance>>

\* One BuildArmorPiece.objects.create of the loop over the pairs; the pairs
\* are created in the order of the keys of the request's dict, any order here.
PatchCreatePiece ==
    /\ patch_in_flight.pc = "deleted"
    /\ \E pair \in patch_in_flight.todo :
          /\ build' = [build EXCEPT !.armor_pieces = @ \cup {pair}]
          /\ patch_in_flight' = [patch_in_flight EXCEPT !.todo = @ \ {pair}]
    /\ UNCHANGED <<SetBonusRank, Weapon, response, previous, stats_in_flight,
                   Monster, MonsterWeakness, MonsterResistance>>

\* update returns and the view answers 200.
PatchRespond ==
    /\ patch_in_flight.pc = "deleted"
    /\ patch_in_flight.todo = {}
    /\ patch_in_flight' = [patch_in_flight EXCEPT !.pc = "done"]
    /\ response' = [kind |-> "build", id |-> build.id, status |-> 200, body |-> NoBody]
    /\ previous' = NoResponse
    /\ UNCHANGED <<SetBonusRank, Weapon, build, stats_in_flight,
                   Monster, MonsterWeakness, MonsterResistance>>

\* What the queries on the related managers of the Build row read at the
\* start of the request return now.
Related(row) ==
    [row EXCEPT !.armor_pieces = build.armor_pieces, !.decorations = build.decorations]

\* The skills list of a request that read the armor pieces of b for the
\* equipment and, in a later query, those of b_later for the set bonuses.
SkillsOfReads(sources, b_later, order) ==
    _finalize_skills(MergeAll(<<>>,
        sources \o SetBonusContributions(_compute_set_bonus_skill_contribs(b_later, order))))

\* build = self.get_object(); order is the order in which the store returns
\* the rows of the unordered queries of this request.
StatsGetObject ==
    /\ stats_in_flight.pc = "idle"
    /\ build # NoBuild
    /\ \E order \in StoreOrders :
          stats_in_flight' = [NoStats EXCEPT !.pc = "object", !.order = order, !.row = build]
    /\ UNCHANGED <<SetBonusRank, Weapon, build, response, previous, patch_in_flight,
                   Monster, MonsterWeakness, MonsterResistance>>

\* set_bonuses = self._compute_set_bonuses(build)
StatsSetBonuses ==
    /\ stats_in_flight.pc = "object"
    /\ stats_in_flight' =
          [stats_in_flight EXCEPT
              !.pc = "set_bonuses",
              !.set_bonuses = _compute_set_bonuses(Related(stats_in_flight.row),
                                                   stats_in_flight.order)]
    /\ UNCHANGED <<SetBonusRank, Weapon, build, response, previous, patch_in_flight,
                   Monster, MonsterWeakness, MonsterResistance>>

\* defense = self._compute_defense(build)
StatsDefense ==
    /\ stats_in_flight.pc = "set_bonuses"
    /\ stats_in_flight' =
          [stats_in_flight EXCEPT
              !.pc = "defense",
              !.defense = _compute_defense(Related(stats_in_flight.row), stats_in_flight.order)]
    /\ UNCHANGED <<SetBonusRank, Weapon, build, response, previous, patch_in_flight,
                   Monster, MonsterWeakness, MonsterResistance>>

\* resistances = self._compute_resistances(build)
StatsResistances ==
    /\ stats_in_flight.pc = "defense"
    /\ stats_in_flight' =
          [stats_in_flight EXCEPT
              !.pc = "resistances",
              !.resistances = _compute_resistances(Related(stats_in_flight.row),
                                                   stats_in_flight.order)]
    /\ UNCHANGED <<SetBonusRank, Weapon, build, response, previous, patch_in_flight,
                   Monster, MonsterWeakness, MonsterResistance>>

\* _compute_all_skills up to the decorations: the equipped armors are read.
StatsSkillSources ==
    /\ stats_in_flight.pc = "resistances"
    /\ stats_in_flight' =
          [stats_in_flight EXCEPT
              !.pc = "sources",
              !.sources = EquipmentContributions(Related(stats_in_flight.row),
                                                 stats_in_flight.order)]
    /\ UNCHANGED <<SetBonusRank, Weapon, build, response, previous, patch_in_flight,
                   Monster, MonsterWeakness, MonsterResistance>>

\* The rest of _compute_all_skills (the armor pieces are read again for the
\* set bonus contributions), and the response.
StatsRespond ==
    /\ stats_in_flight.pc = "sources"
    /\ LET s      == stats_in_flight
           weapon == _compute_weapon_stats(s.row)
           data   == [build_id |-> s.row.id,
                      stats |-> [attack      |-> weapon.attack,
                                 affinity    |-> weapon.affinity,
                                 element     |-> weapon.element,
                                 defense     |-> s.defense,
                                 resistances |-> s.resistances],
                      skills      |-> SkillsOfReads(s.sources, Related(s.row), s.order),
                      set_bonuses |-> s.set_bonuses]
       IN /\ stats_in_flight' = [s EXCEPT !.pc = "done", !.report = data]
          /\ response' = [kind |-> "stats", id |-> s.row.id, status |-> 200, body |-> data]
    /\ previous' = IF response.kind = "stats" /\ response.status = 200
                   THEN response ELSE NoResponse
    /\ UNCHANGED <<SetBonusRank, Weapon, build, patch_in_flight,
                   Monster, MonsterWeakness, MonsterResistance>>

----------------------------------------------------------------------------
(* Specifications *)

WeaponRow(raw, display, affinity, element, element_damage) ==
    [external_id |-> 1001, attack_raw |-> raw, attack_display |-> display,
     affinity |-> affinity, element |-> element, element_damage |-> element_damage]

CleanWeapon == WeaponRow(IntVal(80), IntVal(384), IntVal(0), NoneStr, NoneVal)

\* Set bonuses over every rank catalog: builds of armor pieces only.
Init ==
    /\ SetBonusRank \in RankCatalogs
    /\ Weapon = [id \in {1} |-> CleanWeapon]
    /\ build = NoBuild
    /\ response = NoResponse
    /\ previous = NoResponse
    /\ patch_in_flight = NoPatch
    /\ stats_in_flight = NoStats
    /\ Monster = <<>>
    /\ MonsterWeakness = EmptyBag
    /\ MonsterResistance = EmptyBag

Next == Create \/ PatchArmors \/ GetStats

Spec == Init /\ [][Next]_vars

\* Skill aggregation over the four sources, for three rank catalogs.
SkillRankCatalogs ==
    { {},
      {RankRow(1, 1, 2, 1, 1), RankRow(2, 1, 4, 1, 2)},
      {RankRow(1, 1, 2, 1, 1), RankRow(4, 2, 1, 4, 2), RankRow(6, 1, 2, 2, 1)} }

InitSkills ==
    /\ SetBonusRank \in SkillRankCatalogs
    /\ Weapon = [id \in {1} |-> CleanWeapon]
    /\ build = NoBuild
    /\ response = NoResponse
    /\ previous = NoResponse
    /\ patch_in_flight = NoPatch
    /\ stats_in_flight = NoStats
    /\ Monster = <<>>
    /\ MonsterWeakness = EmptyBag
    /\ MonsterResistance = EmptyBag

NextSkills == Create \/ PatchArmors \/ PatchCharm \/ PatchDecorations \/ GetStats

SpecSkills == InitSkills /\ [][NextSkills]_vars

\* The engine over every stored weapon; builds carry no armor.
AttackVals == {NoneVal, BadVal, IntVal(0), IntVal(80), StrVal(384)}

InitWeapon ==
    /\ SetBonusRank = {}
    /\ \E raw \in AttackVals, display \in AttackVals,
          affinity \in {NoneVal, IntVal(0), IntVal(-10)},
          element \in {NoneStr, "", "fire"},
          element_damage \in {NoneVal, IntVal(0), IntVal(150)} :
            Weapon = [id \in {1} |-> WeaponRow(raw, display, affinity, element, element_damage)]
    /\ build = NoBuild
    /\ response = NoResponse
    /\ previous = NoResponse
    /\ patch_in_flight = NoPatch
    /\ stats_in_flight = NoStats
    /\ Monster = <<>>
    /\ MonsterWeakness = EmptyBag
    /\ MonsterResistance = EmptyBag

NextWeapon == CreateWithWeapon \/ PatchWeapon \/ GetStats

SpecWeapon == InitWeapon /\ [][NextWeapon]_vars

\* Builds written through every key of the payload, over one catalog.
InitBuilds ==
    /\ SetBonusRank = {}
    /\ Weapon = [id \in {1} |-> CleanWeapon]
    /\ build = NoBuild
    /\ response = NoResponse
    /\ previous = NoResponse
    /\ patch_in_flight = NoPatch
    /\ stats_in_flight = NoStats
    /\ Monster = <<>>
    /\ MonsterWeakness = EmptyBag
    /\ MonsterResistance = EmptyBag

NextBuilds ==
    \/ CreateWithPieces
    \/ PatchArmors
    \/ PatchArmorPieces
    \/ PatchDecorations
    \/ PatchCharm
    \/ PatchWeapon
    \/ PatchMixed
    \/ GetStats

SpecBuilds == InitBuilds /\ [][NextBuilds]_vars

\* One PATCH of the armor pieces and one stats request for the same build,
\* interleaved statement by statement.
InitConcurrent ==
    /\ SetBonusRank = {RankRow(1, 1, 2, 1, 1), RankRow(4, 2, 1, 4, 2)}
    /\ Weapon = [id \in {1} |-> CleanWeapon]
    /\ build \in ConcurrentBuilds
    /\ response = NoResponse
    /\ previous = NoResponse
    /\ patch_in_flight = NoPatch
    /\ stats_in_flight = NoStats
    /\ Monster = <<>>
    /\ MonsterWeakness = EmptyBag
    /\ MonsterResistance = EmptyBag

NextConcurrent ==
    \/ PatchSave
    \/ PatchDeletePieces
    \/ PatchCreatePiece
    \/ PatchRespond
    \/ StatsGetObject
    \/ StatsSetBonuses
    \/ StatsDefense
    \/ StatsResistances
    \/ StatsSkillSources
    \/ StatsRespond

SpecConcurrent == InitConcurrent /\ [][NextConcurrent]_vars

\* The monster tables, filled by the import command, with the monster list
\* and the build recommendation reading them.
InitMonsters ==
    /\ SetBonusRank = {}
    /\ Weapon = [id \in 1..2 |->
                   IF id = 1 THEN CleanWeapon
                   ELSE [WeaponRow(IntVal(70), IntVal(336), IntVal(10), "Fire", IntVal(150))
                            EXCEPT !.external_id = 1002]]
    /\ build = NoBuild
    /\ response = NoResponse
    /\ previous = NoResponse
    /\ patch_in_flight = NoPatch
    /\ stats_in_flight = NoStats
    /\ Monster = <<>>
    /\ MonsterWeakness = EmptyBag
    /\ MonsterResistance = EmptyBag

NextMonsters == Import \/ ListMonsters \/ BestBuild

SpecMonsters == InitMonsters /\ [][NextMonsters]_vars

----------------------------------------------------------------------------
(* Properties of the stats report *)

\* The last request was a stats request answered with a report.
IsReport == response.kind = "stats" /\ response.status = 200

report == response.body

SkillRows == Range(report.skills)

SumSources(row) == SumOver(DOMAIN row.sources, row.sources)

\* The equipped pieces of the build that carry the bonus id.
Carrying(bonus_id) ==
    {p \in build.armor_pieces : Armor[p.armor_id].armor_set_bonus_external_id = bonus_id}

RankBonus(r) == SetBonus[r.set_bonus_id].external_id
RankSkill(r) == Skill[r.skill_id].external_id

\* The ranks whose threshold the equipped pieces of their bonus reach.
SatisfiedRanks ==
    {r \in SetBonusRank : Carrying(RankBonus(r)) # {}
                          /\ Cardinality(Carrying(RankBonus(r))) >= r.pieces}

MaxOf(S) == CHOOSE x \in S : \A y \in S : y <= x

\* The level a join row contributes: max(1, stored level).
RECURSIVE SumLevels(_)
SumLevels(links) ==
    IF links = {} THEN 0
    ELSE LET l == CHOOSE x \in links : TRUE
         IN Max(1, l.level) + SumLevels(links \ {l})

\* What each source contributes to the skill with external id ext.
Contributed(ext, source_key) ==
    LET grants(l) == Skill[l.skill_id].external_id = ext
        armor_ids == {p.armor_id : p \in build.armor_pieces}
        deco_ids  == {d.decoration_id : d \in build.decorations}
        levels    == {r.level : r \in {x \in SatisfiedRanks : RankSkill(x) = ext /\ x.level > 0}}
    IN CASE source_key = "armor" ->
              SumLevels({l \in ArmorSkill : l.armor_id \in armor_ids /\ grants(l)})
         [] source_key = "charm" ->
              SumLevels({l \in CharmSkill : l.charm_id = build.charm_id /\ grants(l)})
         [] source_key = "decoration" ->
              SumLevels({l \in DecorationSkill : l.decoration_id \in deco_ids /\ grants(l)})
         [] OTHER -> IF levels = {} THEN 0 ELSE MaxOf(levels)

\* C1: every skill row of a report has level <= max_level, also when the sum
\* of its sources is greater than max_level.
C1_ClampInvariant ==
    IsReport => \A row \in SkillRows : row.level <= row.max_level

C1_Witness ==
    /\ IsReport
    /\ \E row \in SkillRows : SumSources(row) > row.max_level /\ row.level = row.max_level

\* C2: the level of a skill row is min(sum of its sources, max_level), and each
\* value of sources is the unclamped sum of the levels that source contributes.
C2_LevelAndSources ==
    IsReport =>
        \A row \in SkillRows :
            /\ row.level = Min(SumSources(row), row.max_level)
            /\ \A k \in SourceKeys :
                  IF k \in DOMAIN row.sources
                  THEN row.sources[k] = Contributed(row.skill_id, k)
                  ELSE Contributed(row.skill_id, k) = 0

C2_Witness ==
    /\ IsReport
    /\ \E row \in SkillRows :
          /\ SumSources(row) > row.max_level
          /\ Cardinality(DOMAIN row.sources) >= 2
          /\ \E k \in DOMAIN row.sources : row.sources[k] >= 2

\* C3: a skill granted by several satisfied set-bonus ranks gets, as its
\* set_bonus contribution, the highest level among them and not their sum.
C3_HighestSatisfiedRank ==
    IsReport =>
        \A row \in SkillRows :
            "set_bonus" \in DOMAIN row.sources =>
                LET granting == {r \in SatisfiedRanks :
                                    RankSkill(r) = row.skill_id /\ r.level > 0}
                IN /\ granting # {}
                   /\ row.sources["set_bonus"] = MaxOf({r.level : r \in granting})

C3_Witness ==
    /\ IsReport
    /\ \E row \in SkillRows :
          /\ "set_bonus" \in DOMAIN row.sources
          /\ \E r1, r2 \in SatisfiedRanks :
                /\ RankSkill(r1) = row.skill_id /\ RankSkill(r2) = row.skill_id
                /\ 0 < r1.level /\ r1.level < r2.level
                /\ row.sources["set_bonus"] = r2.level

HasSetBonusSource(ext) ==
    \E row \in SkillRows : row.skill_id = ext /\ "set_bonus" \in DOMAIN row.sources

PositiveSkillIds == {Skill[id].external_id : id \in DOMAIN Skill} \ {0}

\* C4: a skill with external id > 0 has a set-bonus contribution iff some rank
\* with level > 0 granting it belongs to a bonus id whose count of equipped
\* pieces, over all the equipped pieces that carry the bonus id, is >= the
\* rank's pieces.
C4_GrantedIffThresholdReached ==
    IsReport =>
        \A ext \in PositiveSkillIds :
            HasSetBonusSource(ext) <=>
                \E r \in SetBonusRank :
                    /\ r.level > 0
                    /\ RankSkill(r) = ext
                    /\ Cardinality(Carrying(RankBonus(r))) >= r.pieces

\* A rank is reached by pieces of two different sets that carry its bonus id,
\* and another rank is not reached.
C4_Witness ==
    /\ IsReport
    /\ \E r \in SetBonusRank :
          /\ HasSetBonusSource(RankSkill(r))
          /\ Cardinality(Carrying(RankBonus(r))) >= r.pieces
          /\ \E p, q \in Carrying(RankBonus(r)) :
                Armor[p.armor_id].armor_set_external_id # Armor[q.armor_id].armor_set_external_id
          /\ \A k \in {_make_set_key(Armor[p.armor_id]) : p \in Carrying(RankBonus(r))} :
                Cardinality({p \in Carrying(RankBonus(r)) : _make_set_key(Armor[p.armor_id]) = k})
                    < r.pieces
    /\ \E r \in SetBonusRank :
          /\ Carrying(RankBonus(r)) # {}
          /\ Cardinality(Carrying(RankBonus(r))) < r.pieces
          /\ ~HasSetBonusSource(RankSkill(r))


ObservedBonusIds ==
    {Armor[p.armor_id].armor_set_bonus_external_id : p \in build.armor_pieces} \ {None}

RanksOfBonus(bonus_id) == {r \in SetBonusRank : RankBonus(r) = bonus_id}

BonusName(bonus_id) ==
    SetBonus[CHOOSE id \in DOMAIN SetBonus : SetBonus[id].external_id = bonus_id].name

\* C5: for every bonus id that an equipped piece carries and that has a rank
\* with pieces > 0, set_bonuses has exactly one row per distinct positive
\* pieces value of its ranks, active iff the number of equipped pieces that
\* carry the bonus id is >= the row's pieces.
C5_OneRowPerThreshold ==
    IsReport =>
        \A bonus_id \in ObservedBonusIds :
            LET thresholds == {r.pieces : r \in {x \in RanksOfBonus(bonus_id) : x.pieces > 0}}
                rows == {i \in 1..Len(report.set_bonuses) :
                            report.set_bonuses[i].name = BonusName(bonus_id)}
            IN thresholds # {} =>
                /\ Cardinality(rows) = Cardinality(thresholds)
                /\ {report.set_bonuses[i].pieces : i \in rows} = thresholds
                /\ \A i \in rows :
                      report.set_bonuses[i].active
                          <=> Cardinality(Carrying(bonus_id)) >= report.set_bonuses[i].pieces

\* The pieces of the build that belong to some set.
GroupedPieces == {p \in build.armor_pieces : _make_set_key(Armor[p.armor_id]) # NoKey}

\* Equality of the SetGroupKeys of two armors: the bonus id if present, else
\* the set id if present, else the set name.
SameSetGroupKey(a1, a2) ==
    LET name(a) == Strip(IF a.armor_set_name = NoneStr THEN "" ELSE a.armor_set_name)
    IN IF a1.armor_set_bonus_external_id # None \/ a2.armor_set_bonus_external_id # None
       THEN a1.armor_set_bonus_external_id = a2.armor_set_bonus_external_id
       ELSE IF a1.armor_set_external_id # None \/ a2.armor_set_external_id # None
       THEN a1.armor_set_external_id = a2.armor_set_external_id
       ELSE name(a1) = name(a2)

\* C6: two equipped pieces are counted in the same group iff their
\* SetGroupKeys are equal; pieces with the same bonus id are counted together
\* even when their set ids or set names differ.
C6_CountedBySetGroupKey ==
    IsReport =>
        \A order \in StoreOrders :
            LET counts == _count_equipped_set_pieces(build, order)
                entry(p) == CHOOSE i \in 1..Len(counts) :
                                counts[i].key = _make_set_key(Armor[p.armor_id])
            IN \A p, q \in GroupedPieces :
                  (entry(p) = entry(q)) <=> SameSetGroupKey(Armor[p.armor_id], Armor[q.armor_id])

\* C7: two stats computations on the same unmodified build return identical
\* reports, whatever order the store returns rows in.
C7_SameReportTwice ==
    (/\ IsReport
     /\ previous.kind = "stats" /\ previous.status = 200
     /\ previous.id = response.id)
        => response.body = previous.body

\* The zeroed report of a build id.
ZeroReport(id) ==
    [build_id |-> id,
     stats |-> [attack |-> [raw |-> 0, display |-> 0], affinity |-> 0,
                element |-> [type |-> NoneStr, value |-> 0], defense |-> 0,
                resistances |-> [fire |-> 0, water |-> 0, thunder |-> 0,
                                 ice |-> 0, dragon |-> 0]],
     skills |-> <<>>, set_bonuses |-> <<>>]

\* C8: a stats request for a build id that does not exist is answered with
\* not-found and never with a report.
C8_NotFound ==
    (response.kind = "stats" /\ (build = NoBuild \/ build.id # response.id))
        => /\ response.status = 404
           /\ response.body = NoBody
           /\ response.body # ZeroReport(response.id)
           /\ response.body # ZeroReport(build.id)

C8_Witness ==
    /\ response.kind = "stats"
    /\ build # NoBuild
    /\ build.id # response.id
    /\ response.status = 404

\* C9: the report of a build with no weapon has attack {raw: 0, display: 0},
\* affinity 0 and element {type: null, value: 0}.
C9_NoWeapon ==
    (IsReport /\ build.weapon_id = None) =>
        /\ report.stats.attack = [raw |-> 0, display |-> 0]
        /\ report.stats.affinity = 0
        /\ report.stats.element = [type |-> NoneStr, value |-> 0]

C9_Witness ==
    /\ IsReport
    /\ build.weapon_id = None
    /\ \E id \in DOMAIN Weapon :
          /\ Weapon[id].attack_raw = IntVal(80)
          /\ Weapon[id].affinity = IntVal(-10)
          /\ Weapon[id].element = "fire"

\* C10: when the weapon of the build has a null or non-integer attack_display,
\* attack.display equals attack.raw.
C10_DisplayFallsBackToRaw ==
    (/\ IsReport
     /\ build.weapon_id \in DOMAIN Weapon
     /\ Weapon[build.weapon_id].attack_display.t \in {"none", "bad"})
        => report.stats.attack.display = report.stats.attack.raw

C10_Witness ==
    /\ IsReport
    /\ build.weapon_id \in DOMAIN Weapon
    /\ Weapon[build.weapon_id].attack_display.t \in {"none", "bad"}
    /\ report.stats.attack.raw = 80
    /\ report.stats.attack.display = 80

\* The sum of an Armor field over the equipped pieces of the build.
SumOfPieces(field) ==
    SumOver(build.armor_pieces, [p \in build.armor_pieces |-> Armor[p.armor_id][field]])

\* C11: stats.defense is the sum of defense_base over the equipped armor
\* pieces, 0 for a build with no armor, whatever defense_max and
\* defense_augmented are.
C11_DefenseIsSumOfBase ==
    IsReport =>
        /\ report.stats.defense = SumOfPieces("defense_base")
        /\ build.armor_pieces = {} => report.stats.defense = 0

C11_Witness ==
    /\ IsReport
    /\ Cardinality(build.armor_pieces) >= 2
    /\ report.stats.defense = SumOfPieces("defense_base")
    /\ report.stats.defense > 0
    /\ report.stats.defense # SumOfPieces("defense_max")
    /\ report.stats.defense # SumOfPieces("defense_augmented")

ResistanceFields ==
    [fire |-> "res_fire", water |-> "res_water", thunder |-> "res_thunder",
     ice |-> "res_ice", dragon |-> "res_dragon"]

\* C12: stats.resistances has exactly the keys fire, water, thunder, ice and
\* dragon, each the sum of its resistance field over the equipped pieces: all
\* 0 without armor, and a negative sum stays negative.
C12_ResistancesAreSums ==
    IsReport =>
        /\ DOMAIN report.stats.resistances = {"fire", "water", "thunder", "ice", "dragon"}
        /\ \A k \in DOMAIN ResistanceFields :
              report.stats.resistances[k] = SumOfPieces(ResistanceFields[k])
        /\ build.armor_pieces = {} =>
              \A k \in DOMAIN ResistanceFields : report.stats.resistances[k] = 0

C12_Witness ==
    /\ IsReport
    /\ Cardinality(build.armor_pieces) >= 2
    /\ report.stats.resistances.dragon < 0
    /\ report.stats.resistances.fire > 0
    /\ report.stats.resistances.dragon = SumOfPieces("res_dragon")

\* C13: the skills list is ordered by clamped level descending and, among
\* rows of equal level, by name ascending compared case-insensitively.
C13_SkillsOrder ==
    IsReport =>
        \A i, j \in 1..Len(report.skills) :
            i < j =>
                \/ report.skills[i].level > report.skills[j].level
                \/ /\ report.skills[i].level = report.skills[j].level
                   /\ StrRank(Lower(report.skills[i].name))
                          <= StrRank(Lower(report.skills[j].name))

C13_Witness ==
    /\ IsReport
    /\ Len(report.skills) >= 3
    /\ \E i, j \in 1..Len(report.skills) :
          report.skills[i].level > report.skills[j].level
    /\ \E i, j \in 1..Len(report.skills) :
          /\ i < j
          /\ report.skills[i].level = report.skills[j].level
          /\ Lower(report.skills[i].name) # Lower(report.skills[j].name)
    /\ \E i \in 1..Len(report.skills) :
          SumSources(report.skills[i]) > report.skills[i].level

\* C14: the set_bonuses list is ordered by name ascending compared
\* case-insensitively and, among rows of equal name, by pieces ascending.
C14_SetBonusesOrder ==
    IsReport =>
        \A i, j \in 1..Len(report.set_bonuses) :
            i < j =>
                \/ StrRank(Lower(report.set_bonuses[i].name))
                       < StrRank(Lower(report.set_bonuses[j].name))
                \/ /\ Lower(report.set_bonuses[i].name) = Lower(report.set_bonuses[j].name)
                   /\ report.set_bonuses[i].pieces <= report.set_bonuses[j].pieces

C14_Witness ==
    /\ IsReport
    /\ Len(report.set_bonuses) >= 3
    /\ \E i, j \in 1..Len(report.set_bonuses) :
          /\ report.set_bonuses[i].name = report.set_bonuses[j].name
          /\ report.set_bonuses[i].pieces < report.set_bonuses[j].pieces
    /\ \E i, j \in 1..Len(report.set_bonuses) :
          Lower(report.set_bonuses[i].name) # Lower(report.set_bonuses[j].name)

\* The level and the sources of every skill of a skills list.
SkillTotals(rows) ==
    {[skill_id |-> rows[i].skill_id, level |-> rows[i].level, sources |-> rows[i].sources] :
        i \in 1..Len(rows)}

\* The build with one of its decorations socketed once more, in a socket of
\* the head or of the weapon that is free.
WithOneMoreSocket ==
    {[build EXCEPT !.decorations = @ \cup {[slot |-> s, socket_index |-> k,
                                           decoration_id |-> d.decoration_id]}] :
        <<d, s, k>> \in {x \in build.decorations \X {"head", "weapon"} \X (1..3) :
                            \A e \in build.decorations :
                                ~(e.slot = x[2] /\ e.socket_index = x[3])}}

\* C15: the decoration contribution depends only on the set of distinct
\* decorations of the build: socketing a decoration of the build in one more
\* socket changes no skill's level or sources.
C15_DistinctDecorationsOnly ==
    IsReport =>
        \A b \in WithOneMoreSocket, order \in StoreOrders :
            SkillTotals(_compute_all_skills(b, order)) = SkillTotals(report.skills)

C15_Witness ==
    /\ IsReport
    /\ \E d, e \in build.decorations : d # e /\ d.decoration_id = e.decoration_id
    /\ WithOneMoreSocket # {}
    /\ \E i \in 1..Len(report.skills) :
          /\ "decoration" \in DOMAIN report.skills[i].sources
          /\ report.skills[i].sources["decoration"] = 2
          /\ report.skills[i].level = 2

\* What the accumulator holds for every skill id.
AccTotals(acc) ==
    {[skill_id |-> acc[i].skill_id, level |-> acc[i].level,
      max_level |-> acc[i].max_level, sources |-> acc[i].sources] : i \in 1..Len(acc)}

\* The contributions in another order: two of them exchanged, or all of them
\* reversed.
Reorderings(contribs) ==
    LET n == Len(contribs)
    IN {[k \in 1..n |-> IF k = i THEN contribs[j] ELSE IF k = j THEN contribs[i]
                        ELSE contribs[k]] : i \in 1..n, j \in 1..n}
       \cup {[k \in 1..n |-> contribs[n + 1 - k]]}

\* C16: merging is order-independent: the contributions of a build, merged in
\* another order, leave for every skill id the same level total, max_level
\* and per-source sums in the accumulator.
C16_MergeOrderIndependent ==
    IsReport =>
        \A order \in StoreOrders :
            LET contribs == AllContributions(build, order)
            IN \A other \in Reorderings(contribs) :
                  AccTotals(MergeAll(<<>>, other)) = AccTotals(MergeAll(<<>>, contribs))

C16_Witness ==
    /\ IsReport
    /\ LET contribs == AllContributions(build, "asc")
       IN /\ Len(contribs) >= 4
          /\ \E i, j \in 1..Len(contribs) :
                /\ i < j
                /\ contribs[i].skill_id = contribs[j].skill_id
                /\ contribs[i].source_key = contribs[j].source_key
                /\ contribs[i].add_level # contribs[j].add_level
          /\ \E i, j \in 1..Len(contribs) :
                /\ contribs[i].skill_id = contribs[j].skill_id
                /\ contribs[i].source_key # contribs[j].source_key
          /\ AllContributions(build, "desc") # contribs

\* The groups of equipped pieces: the pieces of equal SetGroupKey.
SetGroups ==
    {{q \in GroupedPieces : SameSetGroupKey(Armor[p.armor_id], Armor[q.armor_id])} :
        p \in GroupedPieces}

GroupBonus(G) == Armor[(CHOOSE p \in G : TRUE).armor_id].armor_set_bonus_external_id

\* The rows of set_bonuses that carry the set name of a piece of the group.
RowsOfGroup(G) ==
    {i \in 1..Len(report.set_bonuses) :
        \E p \in G : report.set_bonuses[i].name = _make_set_key(Armor[p.armor_id]).set_name}

\* C17: a group of equipped pieces whose key has no bonus id, or whose bonus
\* id has no ranks in the catalog, has exactly one row in set_bonuses, with
\* pieces equal to the number of pieces of the group and active = false.
C17_OneInactiveRowPerGroup ==
    IsReport =>
        \A G \in SetGroups :
            (GroupBonus(G) = None \/ RanksOfBonus(GroupBonus(G)) = {}) =>
                /\ Cardinality(RowsOfGroup(G)) = 1
                /\ \A i \in RowsOfGroup(G) :
                      /\ report.set_bonuses[i].pieces = Cardinality(G)
                      /\ report.set_bonuses[i].active = FALSE

\* C18: computing the stats of a build changes nothing in the store: the
\* build with its armor pieces and decorations, and the catalog, are the same
\* after the request as before it.
C18_StatsWritesNothing ==
    [][response'.kind = "stats" => UNCHANGED <<build, SetBonusRank, Weapon>>]_vars

C18_Witness ==
    /\ IsReport
    /\ build.armor_pieces # {}
    /\ build.decorations # {}
    /\ build.charm_id # None
    /\ SetBonusRank # {}
    /\ report.skills # <<>>
    /\ report.set_bonuses # <<>>

\* C21: a weapon with no element type (null or empty) gives element
\* {type: null, value: 0} whatever its element_damage; a weapon with an
\* element type gives that type and its element_damage, 0 when that is absent.
C21_Element ==
    (IsReport /\ build.weapon_id \in DOMAIN Weapon) =>
        LET w == Weapon[build.weapon_id]
        IN /\ w.element \in {NoneStr, ""} =>
                 report.stats.element = [type |-> NoneStr, value |-> 0]
           /\ w.element \notin {NoneStr, ""} =>
                 /\ report.stats.element.type = w.element
                 /\ report.stats.element.value =
                        (IF w.element_damage.t = "none" THEN 0 ELSE w.element_damage.v)

C21_Witness ==
    /\ IsReport
    /\ build.weapon_id \in DOMAIN Weapon
    /\ Weapon[build.weapon_id].element = ""
    /\ Weapon[build.weapon_id].element_damage = IntVal(150)
    /\ report.stats.element = [type |-> NoneStr, value |-> 0]

\* The set bonus map with one more entry, of a skill id that no Skill of the
\* catalog has, at any place of the map.
WithMissingSkill(contribs) ==
    {[k \in 1..(Len(contribs) + 1) |->
         IF k < i THEN contribs[k]
         ELSE IF k = i THEN [skill_external_id |-> 99, level |-> l]
         ELSE contribs[k - 1]] : i \in 1..(Len(contribs) + 1), l \in {1, 3}}

\* C22: a skill id of the set bonus map that has no Skill in the catalog is
\* dropped: the skills list is the one computed without it, and the stats and
\* set_bonuses are computed without the map.
C22_MissingSkillDropped ==
    IsReport =>
        \A order \in StoreOrders :
            LET contribs == _compute_set_bonus_skill_contribs(build, order)
                all      == AllContributions(build, order)
                sources  == SubSeq(all, 1, Len(all) - Len(SetBonusContributions(contribs)))
            IN \A c \in WithMissingSkill(contribs) :
                  _finalize_skills(MergeAll(<<>>, sources \o SetBonusContributions(c)))
                      = _compute_all_skills(build, order)

C22_Witness ==
    /\ IsReport
    /\ Len(report.skills) >= 2
    /\ \E i \in 1..Len(report.skills) : "set_bonus" \in DOMAIN report.skills[i].sources
    /\ \A id \in DOMAIN Skill : Skill[id].external_id # 99
    /\ Len(_compute_set_bonus_skill_contribs(build, "asc")) >= 2

\* Set bonus ranks that the rank loop has to pass over: the skill has a
\* non-positive external id, or the level is not positive.
IgnoredRanks ==
    {r \in [id : {7}, set_bonus_id : DOMAIN SetBonus, pieces : {1},
            skill_id : DOMAIN Skill, level : {-1, 0, 2}] :
        Skill[r.skill_id].external_id <= 0 \/ r.level <= 0}

\* C23: every skill row of a report has skill_id > 0, level >= 1,
\* max_level >= 1 and every value of sources >= 1; a contribution, or a
\* satisfied set bonus rank, whose skill has an external id <= 0 or whose
\* level is <= 0 neither creates nor changes a row.
C23_PositiveRows ==
    IsReport =>
        /\ \A row \in SkillRows :
              /\ row.skill_id > 0
              /\ row.level >= 1
              /\ row.max_level >= 1
              /\ \A k \in DOMAIN row.sources : row.sources[k] >= 1
        /\ \A order \in StoreOrders :
              LET acc  == MergeAll(<<>>, AllContributions(build, order))
                  best == _compute_set_bonus_skill_contribs(build, order)
                  all_equipped == [bid \in {SetBonus[sb].external_id : sb \in DOMAIN SetBonus} |-> 5]
              IN /\ \A skill \in DOMAIN Skill, add_level \in {-1, 0, 2}, k \in SourceKeys :
                       (Skill[skill].external_id <= 0 \/ add_level <= 0)
                           => _merge_skill(acc, skill, add_level, k) = acc
                 /\ \A r \in IgnoredRanks : BestOfRanks(<<r>>, all_equipped, best) = best

C23_Witness ==
    /\ IsReport
    /\ \E piece \in build.armor_pieces, l \in ArmorSkill :
          l.armor_id = piece.armor_id /\ Skill[l.skill_id].external_id <= 0
    /\ \E row \in SkillRows : Cardinality(DOMAIN row.sources) >= 2
    /\ \E row \in SkillRows : "set_bonus" \in DOMAIN row.sources

\* C26: set_bonuses and skills agree: when a skill row has a set_bonus source
\* that a rank of bonus B with threshold t grants, set_bonuses has a row with
\* the name of B, pieces = t and active = TRUE.
C26_SetBonusesAgreeWithSkills ==
    IsReport =>
        \A r \in SatisfiedRanks : \A row \in SkillRows :
            ( /\ row.skill_id = RankSkill(r)
              /\ "set_bonus" \in DOMAIN row.sources
              /\ row.sources["set_bonus"] = r.level )
            => \E i \in 1..Len(report.set_bonuses) :
                  report.set_bonuses[i]
                      = SetBonusRowRec(BonusName(RankBonus(r)), r.pieces, TRUE)

----------------------------------------------------------------------------
(* Properties of build create / update *)

\* What a PATCH with payload p must leave alone.
PatchFrame(p) ==
    /\ ("armors" \notin p.keys /\ "armor_pieces" \notin p.keys)
          => build'.armor_pieces = build.armor_pieces
    /\ "decorations" \notin p.keys => build'.decorations = build.decorations
    /\ "weapon_external_id" \notin p.keys => build'.weapon_id = build.weapon_id
    /\ "charm_external_id" \notin p.keys => build'.charm_id = build.charm_id

\* C19: a PATCH whose payload has neither armors nor armor_pieces leaves the
\* armor pieces of the build unchanged, one without decorations leaves its
\* decorations unchanged, and one without a weapon (charm) key leaves its
\* weapon (charm) unchanged.
C19_PatchFrames ==
    [][\A p \in PatchPayloads : PatchFrom({p}) => PatchFrame(p)]_vars

C19_Witness ==
    /\ response.kind = "build"
    /\ response.status = 200
    /\ build.armor_pieces # {}
    /\ build.decorations # {}
    /\ build.weapon_id # None
    /\ build.charm_id # None

\* C20: after any sequence of create and update operations a build has at
\* most one armor piece per slot, and the armor of every piece has the
\* armor_type of the slot the piece occupies.
C20_OnePiecePerSlot ==
    /\ \A p, q \in build.armor_pieces : p.slot = q.slot => p = q
    /\ \A p \in build.armor_pieces : Armor[p.armor_id].armor_type = p.slot

C20_Witness ==
    /\ response.kind = "build"
    /\ response.status \in {200, 201}
    /\ build.armor_pieces = {[slot |-> "head", armor_id |-> 6],
                             [slot |-> "chest", armor_id |-> 2]}

\* The payloads that carry an armors dict.
WithArmorsDict == {p \in PatchPayloads : "armors" \in p.keys}

\* C24: after a successful PATCH whose payload has an armors dict, the armor
\* pieces of the build are exactly the (slot, armor) pairs of the dict: every
\* slot the dict names holds the armor with the external id given for it, and
\* every slot the dict does not name is empty.
C24_ArmorsReplaced ==
    [][\A p \in WithArmorsDict :
          (PatchFrom({p}) /\ response'.status = 200) =>
              \A s \in VALID_ARMOR_SLOTS :
                  LET at == {q \in build'.armor_pieces : q.slot = s}
                  IN IF s \in DOMAIN p.armors
                     THEN /\ Cardinality(at) = 1
                          /\ \A q \in at : Armor[q.armor_id].external_id = p.armors[s]
                     ELSE at = {}]_vars

\* Pieces that only the dict {"gloves": 103, "waist": 104, "legs": 105} stores.
C24_Witness ==
    /\ response.kind = "build"
    /\ response.status = 200
    /\ {[slot |-> q.slot, ext |-> Armor[q.armor_id].external_id] : q \in build.armor_pieces}
          = {[slot |-> "gloves", ext |-> 103], [slot |-> "waist", ext |-> 104],
             [slot |-> "legs", ext |-> 105]}

\* The payloads whose only keys are armors and armor_pieces: such a PATCH can
\* be rejected by nothing but the validation of these two.
ArmorOnlyPayloads == {p \in PatchPayloads : p.keys # {} /\ p.keys \subseteq {"armors", "armor_pieces"}}

\* C25: a PATCH that is rejected because its armors or armor_pieces fails
\* validation (an unknown armor id, an armor of another slot's type) leaves the
\* stored build as it was.
C25_RejectedPatchKeepsBuild ==
    [][\A p \in ArmorOnlyPayloads :
          (PatchFrom({p}) /\ response'.status = 400) => build' = build]_vars

----------------------------------------------------------------------------
(* Properties of concurrent requests *)

\* The build before the PATCH in flight, and the build after it.
BuildBefore == IF patch_in_flight.pc = "idle" THEN build ELSE patch_in_flight.before
BuildAfter  == IF patch_in_flight.pc = "idle" THEN build
               ELSE update(patch_in_flight.before, patch_in_flight.payload).instance

\* C27 (as claimed): the report of a stats request that runs concurrently
\* with a PATCH replacing the armor pieces of its build is the report of the
\* build before the PATCH or the report of the build after it.
C27_ReportBeforeOrAfter ==
    stats_in_flight.pc = "done" =>
        \/ stats_in_flight.report = StatsReport(BuildBefore, stats_in_flight.order)
        \/ stats_in_flight.report = StatsReport(BuildAfter, stats_in_flight.order)

\* The sets of armor pieces the store holds while the PATCH runs: the pieces
\* before it, and any of the pieces after it (none right after the delete).
StoredDuringPatch ==
    {[BuildBefore EXCEPT !.armor_pieces = S] :
        S \in {BuildBefore.armor_pieces} \cup SUBSET BuildAfter.armor_pieces}

\* C27 (amended): each of set_bonuses, defense, resistances and skills of the
\* report is computed from armor pieces the store held at the time of its own
\* query, which are the pieces before the PATCH or some of the pieces after
\* it; the parts need not be computed from the same pieces, and skills reads
\* the pieces twice, for the armor skills and for the set bonus skills.
C27_PartsFromStoredPieces ==
    stats_in_flight.pc = "done" =>
        LET r == stats_in_flight.report
            o == stats_in_flight.order
        IN /\ \E b \in StoredDuringPatch : r.set_bonuses = _compute_set_bonuses(b, o)
           /\ \E b \in StoredDuringPatch : r.stats.defense = _compute_defense(b, o)
           /\ \E b \in StoredDuringPatch : r.stats.resistances = _compute_resistances(b, o)
           /\ \E b1, b2 \in StoredDuringPatch :
                 r.skills = SkillsOfReads(EquipmentContributions(b1, o), b2, o)

\* A finished report that is neither the report before nor the report after.
C27_Witness ==
    /\ stats_in_flight.pc = "done"
    /\ patch_in_flight.pc = "done"
    /\ stats_in_flight.report # StatsReport(BuildBefore, stats_in_flight.order)
    /\ stats_in_flight.report # StatsReport(BuildAfter, stats_in_flight.order)
    /\ BuildAfter.armor_pieces # {}
    /\ build = BuildAfter

----------------------------------------------------------------------------
(* Properties of the monster list, the build recommendation and the import *)

WeaknessRows(monster) == {w \in DOMAIN MonsterWeakness : w.monster_id = monster}

\* C28: the monster list with element=E and min_stars=N, N in 1..3, is
\* exactly the set of the monsters that have one element weakness whose name
\* equals E case-insensitively and whose stars are >= N, each monster once.
C28_ElementAndMinStars ==
    LET params == response.body.params
        results == response.body.results
        wanted == {i \in 1..Len(Monster) :
                     \E w \in WeaknessRows(i) :
                        /\ w.kind = "element"
                        /\ Lower(w.name) = Lower(Strip(params.element))
                        /\ w.stars >= params.min_stars.v}
    IN ( /\ response.kind = "monsters"
         /\ params.is_elder_dragon = NoneStr
         /\ Truthy(params.element)
         /\ params.min_stars.t = "int"
         /\ params.min_stars.v \in 1..3 )
       => /\ Range(results) = wanted
          /\ Len(results) = Cardinality(wanted)

\* C29: best_build_fast returns for each of the five armor slots an armor of
\* that armor_type whose score_armor for the monster is maximal among the
\* armors of the type (None when there is none), and a charm whose
\* score_charm, against the skill names of the five chosen armors, is maximal
\* among all charms.
C29_BestPerSlot ==
    response.kind = "best_build" =>
        LET b == response.body.build
            monster == response.id
            names == get_armor_skill_names({b.head, b.chest, b.legs, b.gloves, b.waist})
        IN /\ \A slot \in VALID_ARMOR_SLOTS :
                 LET of_type == {a \in response.body.stored : Armor[a].armor_type = slot}
                 IN IF of_type = {} THEN b[slot] = None
                    ELSE /\ b[slot] \in of_type
                         /\ \A a \in of_type :
                               score_armor(monster, b[slot]) >= score_armor(monster, a)
           /\ b.charm \in DOMAIN Charm
           /\ \A c \in DOMAIN Charm : score_charm(b.charm, names) >= score_charm(c, names)

\* A monster whose element changes the chest armor chosen, a slot without an
\* armor, and a charm that scores by the skills of the chosen armors.
C29_Witness ==
    /\ response.kind = "best_build"
    /\ Monster[response.id].primary_element = "fire"
    /\ response.body.build.legs = None
    /\ response.body.build.head # None
    /\ \E a \in response.body.stored :
          /\ Armor[a].armor_type = "chest"
          /\ score_armor(response.id, a) < score_armor(response.id, response.body.build.chest)
    /\ LET b == response.body.build
           names == get_armor_skill_names({b.head, b.chest, b.legs, b.gloves, b.waist})
       IN \E c \in DOMAIN Charm : score_charm(c, names) < score_charm(b.charm, names)

\* The key of the weakness row that a dict of an mhw-db file asks for.
WeaknessKeyOf(x) ==
    <<Title(x.element), IF StripOrNone(x.condition) = NoneStr THEN ""
                        ELSE Slugify(StripOrNone(x.condition))>>

\* The weaknesses a monster of an mhw-db file is to be stored with: one per
\* key, with the highest stars its dicts give for the key.
StoredWeaknesses(m) ==
    LET asked == {x \in Range(m.weaknesses) : Truthy(x.element) /\ StarsOf(x) > 0}
    IN {[name |-> WeaknessKeyOf(x)[1], condition_key |-> WeaknessKeyOf(x)[2],
         stars |-> MaxOf({StarsOf(y) : y \in {z \in asked : WeaknessKeyOf(z) = WeaknessKeyOf(x)}})] :
           x \in asked}

\* The dict of the file that the store has the monster from: the last one
\* with this id that has a name and no stars above 3.
Imported(monsters, i) ==
    LET stored(j) ==
            /\ Truthy(monsters[j].name)
            /\ \A x \in Range(monsters[j].weaknesses) : Truthy(x.element) => StarsOf(x) <= 3
    IN /\ monsters[i].id # None
       /\ stored(i)
       /\ \A j \in (i + 1)..Len(monsters) : monsters[j].id = monsters[i].id => ~stored(j)

\* C30: a second run of import_mhw on the same file without --reset leaves
\* the store as it was after the first run: the same monsters by external
\* id, for each monster the same weaknesses (one per kind, name and condition
\* key, with the highest stars) and resistances, and no duplicate rows.
C30_SecondRunSameStore ==
    [][( /\ response'.kind = "import"
         /\ ImportFrom(response'.body.path, response'.body.options) ) =>
             LET c     == response'.body
                 after == Store(Monster', MonsterWeakness', MonsterResistance')
                 again == handle(after, MonsterFiles[c.path],
                                 [c.options EXCEPT !.reset = FALSE]).store
                 file  == MonsterFiles[c.path]
                 monsters == IF c.options.limit > 0
                             THEN SubSeq(file, 1, Min(c.options.limit, Len(file))) ELSE file
             IN /\ again = after
                /\ \A w \in DOMAIN after.MonsterWeakness : after.MonsterWeakness[w] = 1
                /\ \A r \in DOMAIN after.MonsterResistance : after.MonsterResistance[r] = 1
                /\ \A v, w \in DOMAIN after.MonsterWeakness :
                      ( /\ v.monster_id = w.monster_id /\ v.kind = w.kind
                        /\ v.name = w.name /\ v.condition_key = w.condition_key ) => v = w
                /\ \A i, j \in 1..Len(after.Monster) :
                      after.Monster[i].external_id = after.Monster[j].external_id => i = j
                /\ ~c.options.dry_run =>
                      \A i \in 1..Len(monsters) :
                         Imported(monsters, i) =>
                            \E pk \in 1..Len(after.Monster) :
                               /\ after.Monster[pk].external_id = monsters[i].id
                               /\ {[name |-> w.name, condition_key |-> w.condition_key,
                                    stars |-> w.stars] :
                                      w \in {x \in DOMAIN after.MonsterWeakness :
                                                x.monster_id = pk}}
                                     = StoredWeaknesses(monsters[i])]_vars

\* monsters.json, whose first monster lists two of its weaknesses twice, has
\* been imported twice in a row.
C30_Witness ==
    /\ response.kind = "import"
    /\ previous.kind = "import"
    /\ response.body.path = "monsters.json"
    /\ previous.body.path = "monsters.json"
    /\ response.body.options = Options(FALSE, FALSE, 0)
    /\ previous.body.options = Options(FALSE, FALSE, 0)
    /\ response.body.counts.monsters_updated = 2
    /\ response.body.counts.monsters_created = 0
    /\ \E pk \in 1..Len(Monster) :
          /\ Monster[pk].external_id = 1
          /\ BagCardinality(WithoutRowsOf(MonsterWeakness, pk))
                = BagCardinality(MonsterWeakness) - 2

====
